---- MODULE Spec2Model ----
(***************************************************************************)
(* A model of the hans grocery agent: the WegmansAction command state      *)
(* machine with its pending-selection store and local mirror, the          *)
(* WegmansBrowser page wrapper, the BrowserPool, and the HansAgent          *)
(* function-calling loop.                                                  *)
(*                                                                         *)
(* Every `await` of the source is a point where another invocation may     *)
(* run, so an asynchronous method is a sequence of actions, one per        *)
(* stretch of code between two awaits.                                     *)
(***************************************************************************)
EXTENDS Integers, Sequences, FiniteSets, TLC

VARIABLES
    pendingSelections,  \* actions/wegmans/index.ts: the module-level Map
    groceryItems,       \* db: rows of grocery_items, oldest first
    now,                \* Date.now(), in minutes since the start
    task,               \* the running WegmansAction.execute invocations
    agent,              \* llm/agent.ts: the running HansAgent.handleMessage
    conversationHistory, \* llm/gemini.ts: GeminiService.conversationHistory
    called,             \* whether the handleMessage call that is followed was made
    browser,            \* browser/pool.ts: BrowserPool.browser
    initPromise,        \* BrowserPool.initPromise
    launch,             \* every chromium.launch made so far, and its state
    contexts,           \* BrowserPool.contexts
    getter,             \* the running getBrowser and getContext invocations
    closer,             \* the running BrowserPool.close invocation
    handler,            \* whatsapp/messageHandler.ts: the running 'message' callback
    page,               \* actions/wegmans/browser.ts: WegmansBrowser.page
    pages,              \* every page created so far, and its state
    caller,             \* the running WegmansBrowser.withPage invocations
    storedFor,          \* the user whose command stored the entry under 'default'
    chats,              \* llm/gemini.ts: the running GeminiService.chat invocations
    arrays,             \* the Array objects that chat has created or found stored
    fn                  \* llm/agent.ts: the running executeFunction

actionVars == <<pendingSelections, groceryItems, now, task>>

agentVars == <<agent, conversationHistory, called>>

poolVars == <<browser, initPromise, launch, contexts, getter, closer>>

browserVars == <<page, pages, caller>>

handlerVars == <<handler>>

userVars == <<storedFor>>

chatVars == <<chats, arrays>>

toolVars == <<fn>>

vars == <<actionVars, agentVars, poolVars, browserVars, handlerVars, userVars,
          chatVars, toolVars>>

----------------------------------------------------------------------------
(* Bounds of the model.                                                    *)

\* elements shown by a My Items page or a search page
MaxPage == 2
\* the clock stops after this many periods of SELECTION_TIMEOUT
MaxPeriods == 2
\* rows the local mirror may hold
MaxMirror == 1

----------------------------------------------------------------------------
(* Program constants.                                                      *)

\* index.ts: const SELECTION_TIMEOUT = 5 * 60 * 1000 (here in minutes)
SELECTION_TIMEOUT == 5
\* list.ts: .slice(0, 5) of both searches
RESULT_LIMIT == 5

\* the invocations of execute that may be in progress
Tasks == DOMAIN task

\* product names the site may show, and the items a user may ask for
Names == {"milk", "2% milk"}
Items == {"milk", "Milk", "2%"}

\* String.prototype.toLowerCase on the strings of the model
toLowerCase(s) ==
    CASE s = "Milk" -> "milk"
      [] s = "MILK" -> "milk"
      [] s = "/RESET" -> "/reset"
      [] OTHER -> s

\* String.prototype.includes on lower-cased strings of the model
includes(s, q) ==
    \/ s = q
    \/ s = "2% milk" /\ q \in {"milk", "2%"}

----------------------------------------------------------------------------
(* Sequences.                                                              *)

Slice(s, n) == IF Len(s) <= n THEN s ELSE SubSeq(s, 1, n)

Reverse(s) == [i \in 1..Len(s) |-> s[Len(s) + 1 - i]]

\* the sequences over S of length at most n
SeqUpTo(S, n) == UNION {[1..k -> S] : k \in 0..n}

----------------------------------------------------------------------------
(* The JavaScript Map, as the set of its entries.                          *)

MapHas(m, k) == \E e \in m : e.key = k

Undefined ==
    [query |-> "", results |-> <<>>, source |-> "undefined", timestamp |-> 0]

MapGet(m, k) ==
    IF MapHas(m, k) THEN (CHOOSE e \in m : e.key = k).val ELSE Undefined

MapSetStacking(m, k, v) == m \cup {[key |-> k, val |-> v]}

MapSet(m, k, v) == {e \in m : e.key # k} \cup {[key |-> k, val |-> v]}

MapDelete(m, k) == {e \in m : e.key # k}

\* every command uses the one key 'default'
SessionKey == "default"

----------------------------------------------------------------------------
(* actions/wegmans/list.ts: what the page functions return.  Each catches  *)
(* its own errors and returns [] or false, so none of them ever throws.    *)

NoCandidate == [name |-> "", index |-> -1]

RECURSIVE FilterIncludes(_, _, _)
\* elements.map((el, idx) => ({name, index: idx})).filter(name includes q)
FilterIncludes(elements, q, i) ==
    IF i > Len(elements) THEN <<>>
    ELSE (IF includes(toLowerCase(elements[i]), toLowerCase(q))
          THEN <<[name |-> elements[i], index |-> i - 1]>>
          ELSE <<>>)
         \o FilterIncludes(elements, q, i + 1)

\* searchMyItems: the matching My Items, each with its position on the page
searchMyItems(elements, q) == Slice(FilterIncludes(elements, q, 1), RESULT_LIMIT)

\* searchProducts: the first product cards, numbered from 0
searchProducts(cards) ==
    LET top == Slice(cards, RESULT_LIMIT)
    IN  [i \in 1..Len(top) |-> [name |-> top[i], index |-> i - 1]]

\* what a page may show
Pages == SeqUpTo(Names, MaxPage)

----------------------------------------------------------------------------
(* db/sqlite.ts: the grocery_items table.                                  *)

addGroceryItem(rows, name) == Append(rows, name)

\* DELETE FROM grocery_items WHERE LOWER(name) = LOWER(?)
removeGroceryItem(rows, name) ==
    SelectSeq(rows, LAMBDA r : toLowerCase(r) # toLowerCase(name))

\* SELECT ... ORDER BY added_at DESC
getGroceryItems(rows) == Reverse(rows)

\* the mutation of clearGroceryItems: nothing is deleted
clearGroceryItemsKeeps(rows) == [rows |-> rows, changes |-> 0]

\* DELETE FROM grocery_items; returns result.changes
clearGroceryItems(rows) == [rows |-> <<>>, changes |-> Len(rows)]

----------------------------------------------------------------------------
(* actions/wegmans/browser.ts, seen from WegmansAction: withPage either    *)
(* throws before the operation runs (no page: authentication failed),      *)
(* returns the operation's result, or throws after the operation ran       *)
(* (saving the context state failed).                                      *)

WithPageOutcomes == {"nopage", "ok", "savefail"}

OperationRan(out) == out # "nopage"

\* the mutation of Threw: a failure to save the state is not thrown
ThrewBeforeOperation(out) == out = "nopage"

Threw(out) == out # "ok"

ErrorOf(out) == IF out = "nopage" THEN "auth" ELSE "save"

----------------------------------------------------------------------------
(* actions/wegmans/index.ts: WegmansAction.                                *)

\* an ActionResult {success, message}: msg names the message template, name,
\* count and items are what the template is filled with; threw marks a
\* rejection of execute's promise instead of a result
NoResult ==
    [success |-> FALSE, msg |-> "none", name |-> "", count |-> 0, items |-> <<>>,
     threw |-> FALSE]

Result(success, msg, name, count, items) ==
    [success |-> success, msg |-> msg, name |-> name, count |-> count,
     items |-> items, threw |-> FALSE]

Thrown(error) == [NoResult EXCEPT !.msg = "thrown", !.name = error, !.threw = TRUE]

\* the mutation of the catch blocks: the error is thrown on
FailureRethrown(msg, error) == Thrown(error)

\* the catch block of a handler: {success: false, message: `... ${error.message}`}
Failure(msg, error) == Result(FALSE, msg, error, 0, <<>>)

IdleTask ==
    [pc |-> "idle", kind |-> "none", item |-> "", n |-> 0,
     results |-> <<>>, found |-> <<>>, exact |-> NoCandidate,
     pending |-> Undefined,
     selectedItem |-> NoCandidate,
     calls |-> <<>>, result |-> NoResult, replaced |-> Undefined,
     purged |-> {}]

\* one withPage call: the list.ts function it runs, with its arguments, and
\* (ok) what that function returns
Call(op, query, index, ok) ==
    [op |-> op, query |-> query, index |-> index, ok |-> ok, out |-> "ok"]

\* the mutation of the menu: numbered from 0
OptionsFromZero(results) ==
    [i \in 1..Len(results) |-> [num |-> i - 1, name |-> results[i].name]]

\* the numbered menu: `${i + 1}. ${r.name}`
Options(results) ==
    [i \in 1..Len(results) |-> [num |-> i, name |-> results[i].name]]

\* the mutation of cleanupPendingSelections: nothing expires
cleanupNever(m, t) == m

\* cleanupPendingSelections
cleanupPendingSelections(m, t) ==
    {e \in m : ~(t - e.val.timestamp > SELECTION_TIMEOUT)}

\* the mutation of find: no candidate ever equals the item
FindNothing(results, item, i) == NoCandidate

\* myItemsResults.find(r => r.name.toLowerCase() === item.toLowerCase())
RECURSIVE Find(_, _, _)
Find(results, item, i) ==
    IF i > Len(results) THEN NoCandidate
    ELSE IF toLowerCase(results[i].name) = toLowerCase(item) THEN results[i]
    ELSE Find(results, item, i + 1)

Selection(query, results, source, t) ==
    [query |-> query, results |-> results, source |-> source, timestamp |-> t]

Running == {t \in Tasks : task[t].pc # "idle"}

\* the mirror has room for what the running commands may add
Room == Len(groceryItems) + Cardinality(Running) < MaxMirror

\* a command begins; purged is what cleanupPendingSelections deleted for it
Begin(t, kind, item, n) ==
    [IdleTask EXCEPT !.kind = kind, !.item = item, !.n = n,
                     !.purged = pendingSelections \
                                cleanupPendingSelections(pendingSelections, now)]

Finish(me, result) == [me EXCEPT !.pc = "done", !.result = result]

\* what a search passed to withPage returned, if it ran
Found(me, out, results) ==
    [me EXCEPT !.found = IF OperationRan(out) THEN results ELSE <<>>]

\* the log of the command's withPage calls: the operation passed, how
\* withPage ended, and what the operation returned if it ran
Logged(me, out, call) ==
    [me EXCEPT !.calls = Append(@,
        [call EXCEPT !.out = out,
                     !.ok = IF OperationRan(out) THEN @ ELSE FALSE])]

\* pendingSelections.set('default', {query, results, source, timestamp}) and
\* the menu that is returned with it
Disambiguate(t, me, results, source) ==
    /\ pendingSelections' =
           MapSet(pendingSelections, SessionKey,
                  Selection(me.item, results, source, now))
    /\ task' = [task EXCEPT ![t] =
           Finish([me EXCEPT !.results = results,
                             !.replaced = MapGet(pendingSelections, SessionKey)],
                  Result(TRUE,
                         IF source = "myItems" THEN "menu_past" ELSE "menu_found",
                         "", Len(results), Options(results)))]
    /\ UNCHANGED <<groceryItems, now>>

\* db.addGroceryItem(name) and the success result
Resolve(t, me, name, msg) ==
    /\ groceryItems' = addGroceryItem(groceryItems, name)
    /\ task' = [task EXCEPT ![t] = Finish(me, Result(TRUE, msg, name, 0, <<>>))]
    /\ UNCHANGED <<pendingSelections, now>>

\* a result that changes neither the store nor the mirror
Reply(t, me, result) ==
    /\ task' = [task EXCEPT ![t] = Finish(me, result)]
    /\ UNCHANGED <<pendingSelections, groceryItems, now>>

\* the next await of the same command
Await(t, me, pc) ==
    /\ task' = [task EXCEPT ![t] = [me EXCEPT !.pc = pc]]
    /\ UNCHANGED <<pendingSelections, groceryItems, now>>

\* execute, lines 53-58, up to the first await of the handler
Execute(t, kind, item, n, pc) ==
    /\ task[t].pc = "idle"
    /\ pendingSelections' = cleanupPendingSelections(pendingSelections, now)
    /\ task' = [task EXCEPT ![t] = [Begin(t, kind, item, n) EXCEPT !.pc = pc]]
    /\ UNCHANGED <<groceryItems, now>>

(* handleAdd *)

ExecuteAdd(t) ==
    \E item \in Items :
        /\ Room
        /\ Execute(t, "add", item, 0, "add_searchMyItems")

ExactMatchSensitive(results, item) ==
    IF \E i \in 1..Len(results) : results[i].name = item
    THEN results[CHOOSE i \in 1..Len(results) : results[i].name = item
                    /\ \A j \in 1..(i - 1) : results[j].name # item]
    ELSE NoCandidate

ExactMatch(results, item) == Find(results, item, 1)

\* lines 115-156: after searchMyItems
AddSearchMyItemsDone(t) ==
    /\ task[t].pc = "add_searchMyItems"
    /\ \E out \in WithPageOutcomes, elements \in Pages :
        LET myItemsResults == searchMyItems(elements, task[t].item)
            me == Found(Logged(task[t], out,
                              Call("searchMyItems", task[t].item, -1, TRUE)),
                       out, myItemsResults)
            exactMatch == ExactMatch(myItemsResults, me.item)
        IN  IF Threw(out)
            THEN Reply(t, me, Failure("failed_search", ErrorOf(out)))
            ELSE IF Len(myItemsResults) > 0
            THEN IF exactMatch # NoCandidate
                 THEN Await(t, [me EXCEPT !.results = myItemsResults,
                                          !.exact = exactMatch], "add_addMyItem")
                 ELSE Disambiguate(t, me, myItemsResults, "myItems")
            ELSE Await(t, me, "add_searchProducts")

\* lines 127-146: after addMyItemToList of the exact match
AddMyItemDone(t) ==
    /\ task[t].pc = "add_addMyItem"
    /\ \E out \in WithPageOutcomes, success \in BOOLEAN :
        LET me == Logged(task[t], out,
                         Call("addMyItemToList", task[t].item,
                              task[t].exact.index, success))
        IN  IF Threw(out)
            THEN Reply(t, me, Failure("failed_search", ErrorOf(out)))
            ELSE IF success
            THEN Resolve(t, me, me.exact.name, "added_past")
            ELSE Disambiguate(t, me, me.results, "myItems")

\* the mutation of the test for no result: an empty menu is offered
NoResultsNever(searchResults) == FALSE

\* lines 163 and 228: searchResults.length === 0
NoResults(searchResults) == Len(searchResults) = 0

\* the mutation of the test for a single result: the first of many is added
SingleResultOrMore(searchResults) == Len(searchResults) >= 1

\* lines 171 and 236: searchResults.length === 1
SingleResult(searchResults) == Len(searchResults) = 1

\* lines 163-205 and 228-270: after searchProducts, in handleAdd and handleSearch
AfterSearchProducts(t, out, cards, next) ==
    LET searchResults == searchProducts(cards)
        me == Found(Logged(task[t], out,
                          Call("searchProducts", task[t].item, -1, TRUE)),
                   out, searchResults)
    IN  IF Threw(out)
        THEN Reply(t, me, Failure("failed_search", ErrorOf(out)))
        ELSE IF NoResults(searchResults)
        THEN Reply(t, me, Result(FALSE, "couldnt_find", me.item, 0, <<>>))
        ELSE IF SingleResult(searchResults)
        THEN Await(t, [me EXCEPT !.results = searchResults], next)
        ELSE Disambiguate(t, me, searchResults, "search")

\* lines 172-191 and 237-256: after addSearchResultToList(page, item, 0)
AfterAddSearchResult(t, out, success) ==
    LET me == Logged(task[t], out,
                     Call("addSearchResultToList", task[t].item, 0, success))
    IN  IF Threw(out)
        THEN Reply(t, me, Failure("failed_search", ErrorOf(out)))
        ELSE IF success
        THEN Resolve(t, me, me.results[1].name, "added")
        ELSE Disambiguate(t, me, me.results, "search")

AddSearchProductsDone(t) ==
    /\ task[t].pc = "add_searchProducts"
    /\ \E out \in WithPageOutcomes, cards \in Pages :
        AfterSearchProducts(t, out, cards, "add_addSearchResult")

AddSearchResultDone(t) ==
    /\ task[t].pc = "add_addSearchResult"
    /\ \E out \in WithPageOutcomes, success \in BOOLEAN :
        AfterAddSearchResult(t, out, success)

(* handleSearch *)

\* the mutation of search: it looks in My Items first, as add does
ExecuteSearchCacheFirst(t) ==
    \E item \in Items :
        /\ Room
        /\ Execute(t, "search", item, 0, "add_searchMyItems")

ExecuteSearch(t) ==
    \E item \in Items :
        /\ Room
        /\ Execute(t, "search", item, 0, "search_searchProducts")

SearchProductsDone(t) ==
    /\ task[t].pc = "search_searchProducts"
    /\ \E out \in WithPageOutcomes, cards \in Pages :
        AfterSearchProducts(t, out, cards, "search_addSearchResult")

SearchAddResultDone(t) ==
    /\ task[t].pc = "search_addSearchResult"
    /\ \E out \in WithPageOutcomes, success \in BOOLEAN :
        AfterAddSearchResult(t, out, success)

(* handleSelection *)

\* what "pick <n>" may carry: \d+ matches no sign, so n >= 0
Picks == 0..(MaxPage + 1)

InRangeNoLowerBound(index, length) == ~(index >= length)

\* the mutation of the range test: every index passes
InRangeAlways(index, length) == TRUE

\* line 296: index < 0 || index >= pending.results.length
InRange(index, length) == ~(index < 0 \/ index >= length)

\* the mutation of the candidate read: its index is its place in the menu
AtPosition(results, index) ==
    IF index + 1 \in DOMAIN results
    THEN [name |-> results[index + 1].name, index |-> index]
    ELSE NoCandidate

\* pending.results[index]; reading past the array gives undefined
At(results, index) ==
    IF index + 1 \in DOMAIN results THEN results[index + 1] ELSE NoCandidate

\* lines 285-304: the synchronous part of handleSelection
handleSelection(t, n) ==
    LET cleaned == cleanupPendingSelections(pendingSelections, now)
        pending == MapGet(cleaned, SessionKey)
        index == n - 1
        me == [Begin(t, "pick", "", n) EXCEPT !.pending = pending]
        selectedItem == At(pending.results, index)
    IN  /\ task[t].pc = "idle"
        /\ pendingSelections' = cleaned
        /\ UNCHANGED <<groceryItems, now>>
        /\ task' = [task EXCEPT ![t] =
             IF pending = Undefined
             THEN Finish(me, Result(FALSE, "no_pending", "", 0, <<>>))
             ELSE IF ~InRange(index, Len(pending.results))
             THEN Finish(me, Result(FALSE, "pick_between_1_and",
                                    "", Len(pending.results), <<>>))
             ELSE IF selectedItem = NoCandidate
             THEN Finish(me, Thrown("TypeError"))
             ELSE [me EXCEPT !.pc = "pick_add",
                             !.selectedItem = selectedItem]]

\* a pick, while the mirror has room for what it may add
ExecutePick(t) == \E n \in Picks : Room /\ handleSelection(t, n)

\* a pick that may begin while another command is running
ExecutePickOverlapping(t) == \E n \in Picks : handleSelection(t, n)

SelectionCatchKeeps(m) == m

\* line 336: pendingSelections.delete('default') in the catch block
SelectionCatch(m) == MapDelete(m, SessionKey)

\* the mutation of SelectionClear: the selection stays
SelectionClearKeeps(m) == m

\* line 320: pendingSelections.delete('default') after the remote add
SelectionClear(m) == MapDelete(m, SessionKey)

\* lines 306-341: after the remote add of the selected item
PickAddDone(t) ==
    /\ task[t].pc = "pick_add"
    /\ \E out \in WithPageOutcomes, success \in BOOLEAN :
        LET pending == task[t].pending
            selectedItem == task[t].selectedItem
            me == Logged(task[t], out,
                         Call(IF pending.source = "myItems"
                              THEN "addMyItemToList"
                              ELSE "addSearchResultToList",
                              pending.query, selectedItem.index, success))
        IN  /\ UNCHANGED now
            /\ IF Threw(out)
               THEN /\ pendingSelections' = SelectionCatch(pendingSelections)
                    /\ groceryItems' = groceryItems
                    /\ task' = [task EXCEPT ![t] =
                         Finish(me, Failure("failed_add", ErrorOf(out)))]
               ELSE /\ pendingSelections' = SelectionClear(pendingSelections)
                    /\ IF success
                       THEN /\ groceryItems' =
                                   addGroceryItem(groceryItems, selectedItem.name)
                            /\ task' = [task EXCEPT ![t] =
                                 Finish(me, Result(TRUE, "added",
                                                   selectedItem.name, 0, <<>>))]
                       ELSE /\ groceryItems' = groceryItems
                            /\ task' = [task EXCEPT ![t] =
                                 Finish(me, Result(FALSE, "couldnt_add",
                                                   selectedItem.name, 0, <<>>))]

(* handleRemove *)

ExecuteRemove(t) ==
    \E item \in Items : Execute(t, "remove", item, 0, "remove_removeItem")

\* lines 352-374
RemoveDone(t) ==
    /\ task[t].pc = "remove_removeItem"
    /\ \E out \in WithPageOutcomes, success \in BOOLEAN :
        LET me == Logged(task[t], out,
                         Call("removeItemFromList", task[t].item, -1, success))
        IN  /\ UNCHANGED <<pendingSelections, now>>
            /\ IF Threw(out)
               THEN /\ groceryItems' = groceryItems
                    /\ task' = [task EXCEPT ![t] =
                         Finish(me, Failure("failed_remove", ErrorOf(out)))]
               ELSE IF success
               THEN /\ groceryItems' = removeGroceryItem(groceryItems, me.item)
                    /\ task' = [task EXCEPT ![t] =
                         Finish(me, Result(TRUE, "removed", me.item, 0, <<>>))]
               ELSE /\ groceryItems' = groceryItems
                    /\ task' = [task EXCEPT ![t] =
                         Finish(me, Result(FALSE, "not_in_list", me.item, 0, <<>>))]

(* handleList *)

ExecuteList(t) == Execute(t, "list", "", 0, "list_getListItems")

\* list.ts getListItems: the items of the page, or [] when reading it threw
getListItems(elements, readThrew) == IF readThrew THEN <<>> ELSE elements

\* lines 384-425
ListDone(t) ==
    /\ task[t].pc = "list_getListItems"
    /\ \E out \in WithPageOutcomes, elements \in Pages, readThrew \in BOOLEAN :
        LET items == getListItems(elements, readThrew)
            me == Logged(task[t], out, Call("getListItems", "", -1, ~readThrew))
            cachedItems == getGroceryItems(groceryItems)
        IN  Reply(t, me,
                  IF Threw(out)
                  THEN IF Len(cachedItems) > 0
                       THEN Result(TRUE, "cached_list", "", Len(cachedItems),
                                   cachedItems)
                       ELSE Failure("failed_list", ErrorOf(out))
                  ELSE IF Len(items) = 0
                  THEN Result(TRUE, "empty_list", "", 0, <<>>)
                  ELSE Result(TRUE, "list", "", Len(items), items))

(* handleClear *)

ExecuteClear(t) == Execute(t, "clear", "", 0, "clear_clearList")

\* lines 435-457
ClearDone(t) ==
    /\ task[t].pc = "clear_clearList"
    /\ \E out \in WithPageOutcomes, success \in BOOLEAN :
        LET me == Logged(task[t], out, Call("clearList", "", -1, success))
        IN  /\ UNCHANGED <<pendingSelections, now>>
            /\ IF Threw(out)
               THEN /\ groceryItems' = groceryItems
                    /\ task' = [task EXCEPT ![t] =
                         Finish(me, Failure("failed_clear_error", ErrorOf(out)))]
               ELSE IF success
               THEN /\ groceryItems' = clearGroceryItems(groceryItems).rows
                    /\ task' = [task EXCEPT ![t] =
                         Finish(me, Result(TRUE, "cleared", "",
                                           clearGroceryItems(groceryItems).changes,
                                           <<>>))]
               ELSE /\ groceryItems' = groceryItems
                    /\ task' = [task EXCEPT ![t] =
                         Finish(me, Result(FALSE, "failed_clear", "", 0, <<>>))]

\* the caller has taken the result
Return(t) ==
    /\ task[t].pc = "done"
    /\ task' = [task EXCEPT ![t] = IdleTask]
    /\ UNCHANGED <<pendingSelections, groceryItems, now>>

\* time passes: one period of SELECTION_TIMEOUT, so that a stored selection is
\* seen at the ages 0, SELECTION_TIMEOUT (the last age at which it is kept)
\* and beyond
Tick ==
    /\ now < MaxPeriods * SELECTION_TIMEOUT
    /\ now' = now + SELECTION_TIMEOUT
    /\ UNCHANGED <<pendingSelections, groceryItems, task>>

\* the state of the other components, which a specification of one
\* component leaves alone
IdleAgent ==
    [pc |-> "idle", userId |-> "", message |-> "", history |-> <<>>,
     before |-> <<>>,
     response |-> [text |-> FALSE, functionCalls |-> <<>>, parts |-> FALSE],
     iterations |-> 0, call |-> 0, result |-> "none", continues |-> 0,
     batches |-> 0, reply |-> "none", caught |-> FALSE, added |-> <<>>]

Null == 0

RestAgent ==
    /\ agent = IdleAgent
    /\ conversationHistory = {}
    /\ called = FALSE

\* no close() is running; saved and released are the names whose context
\* the running close() has persisted and closed
IdleCloser ==
    [pc |-> "idle", name |-> "", browser |-> Null, saved |-> {}, released |-> {}]

RestPool ==
    /\ browser = Null
    /\ initPromise = Null
    /\ launch = <<>>
    /\ contexts = {}
    /\ getter = <<>>
    /\ closer = IdleCloser

RestBrowser ==
    /\ page = Null
    /\ pages = <<>>
    /\ caller = <<>>

\* no 'message' callback is running
IdleHandler ==
    [pc |-> "idle", from |-> "", body |-> "", handled |-> FALSE,
     reset |-> FALSE, response |-> "none", delivered |-> <<>>]

RestHandler == handler = IdleHandler

\* no entry is stored for any user
RestUsers == storedFor = ""

\* no chat is followed by itself
RestChats == chats = <<>> /\ arrays = <<>>

\* no function call is being executed
IdleFn ==
    [pc |-> "idle", name |-> "", items |-> <<>>, selection |-> 0, i |-> 0,
     results |-> <<>>, ran |-> <<>>, out |-> [kind |-> "none"],
     pending |-> {}, mirror |-> <<>>]

RestTools == fn = IdleFn

InitAction ==
    /\ pendingSelections = {}
    /\ groceryItems = <<>>
    /\ now = 0
    /\ task = [t \in {"t1"} |-> IdleTask]
    /\ RestAgent /\ RestPool /\ RestBrowser
    /\ RestHandler /\ RestUsers /\ RestChats /\ RestTools

NextAction ==
    \/ \E t \in Tasks : ExecuteAdd(t) /\ UNCHANGED <<agentVars, poolVars, browserVars, handlerVars, userVars, chatVars, toolVars>>
    \/ \E t \in Tasks : AddSearchMyItemsDone(t) /\ UNCHANGED <<agentVars, poolVars, browserVars, handlerVars, userVars, chatVars, toolVars>>
    \/ \E t \in Tasks : AddMyItemDone(t) /\ UNCHANGED <<agentVars, poolVars, browserVars, handlerVars, userVars, chatVars, toolVars>>
    \/ \E t \in Tasks : AddSearchProductsDone(t) /\ UNCHANGED <<agentVars, poolVars, browserVars, handlerVars, userVars, chatVars, toolVars>>
    \/ \E t \in Tasks : AddSearchResultDone(t) /\ UNCHANGED <<agentVars, poolVars, browserVars, handlerVars, userVars, chatVars, toolVars>>
    \/ \E t \in Tasks : ExecuteSearch(t) /\ UNCHANGED <<agentVars, poolVars, browserVars, handlerVars, userVars, chatVars, toolVars>>
    \/ \E t \in Tasks : SearchProductsDone(t) /\ UNCHANGED <<agentVars, poolVars, browserVars, handlerVars, userVars, chatVars, toolVars>>
    \/ \E t \in Tasks : SearchAddResultDone(t) /\ UNCHANGED <<agentVars, poolVars, browserVars, handlerVars, userVars, chatVars, toolVars>>
    \/ \E t \in Tasks : ExecutePick(t) /\ UNCHANGED <<agentVars, poolVars, browserVars, handlerVars, userVars, chatVars, toolVars>>
    \/ \E t \in Tasks : PickAddDone(t) /\ UNCHANGED <<agentVars, poolVars, browserVars, handlerVars, userVars, chatVars, toolVars>>
    \/ \E t \in Tasks : ExecuteRemove(t) /\ UNCHANGED <<agentVars, poolVars, browserVars, handlerVars, userVars, chatVars, toolVars>>
    \/ \E t \in Tasks : RemoveDone(t) /\ UNCHANGED <<agentVars, poolVars, browserVars, handlerVars, userVars, chatVars, toolVars>>
    \/ \E t \in Tasks : ExecuteList(t) /\ UNCHANGED <<agentVars, poolVars, browserVars, handlerVars, userVars, chatVars, toolVars>>
    \/ \E t \in Tasks : ListDone(t) /\ UNCHANGED <<agentVars, poolVars, browserVars, handlerVars, userVars, chatVars, toolVars>>
    \/ \E t \in Tasks : ExecuteClear(t) /\ UNCHANGED <<agentVars, poolVars, browserVars, handlerVars, userVars, chatVars, toolVars>>
    \/ \E t \in Tasks : ClearDone(t) /\ UNCHANGED <<agentVars, poolVars, browserVars, handlerVars, userVars, chatVars, toolVars>>
    \/ \E t \in Tasks : Return(t) /\ UNCHANGED <<agentVars, poolVars, browserVars, handlerVars, userVars, chatVars, toolVars>>
    \/ Tick /\ UNCHANGED <<agentVars, poolVars, browserVars, handlerVars, userVars, chatVars, toolVars>>

SpecAction == InitAction /\ [][NextAction]_vars

----------------------------------------------------------------------------
(* Properties of WegmansAction.                                            *)

\* t returns in this step
Returns(t) == task[t].pc # "done" /\ task'[t].pc = "done"

Done(t, kind) == task[t].pc = "done" /\ task[t].kind = kind

LastCall(me) == me.calls[Len(me.calls)]

Menus == {"menu_past", "menu_found"}

C6_OnePendingPerKey ==
    /\ [](\A e1, e2 \in pendingSelections : e1.key = e2.key => e1 = e2)
    /\ [][\A t \in Tasks :
            Returns(t) /\ task'[t].result.msg \in Menus
            => pendingSelections' =
                 {[key |-> SessionKey,
                   val |-> Selection(task'[t].item, task'[t].results,
                                     IF task'[t].result.msg = "menu_past"
                                     THEN "myItems" ELSE "search",
                                     now)]}]_vars

\* a menu was returned while a different selection was stored: it was replaced
C6_Witness ==
    \E t \in Tasks :
        /\ task[t].pc = "done"
        /\ task[t].result.msg \in Menus
        /\ task[t].replaced # Undefined
        /\ task[t].replaced # MapGet(pendingSelections, SessionKey)
        /\ Cardinality(pendingSelections) = 1

\* C7: a pick succeeds only if it found a PendingSelection and 1 <= n <= N,
\* its number of candidates; if it found one and n is outside 1..N, the result
\* is the failure 'Please pick a number between 1 and N'.
C7_PickRange ==
    \A t \in Tasks :
        Done(t, "pick") =>
            LET N == Len(task[t].pending.results)
                n == task[t].n
            IN  /\ task[t].result.success
                    => task[t].pending # Undefined /\ 1 <= n /\ n <= N
                /\ task[t].pending # Undefined /\ (n < 1 \/ n > N)
                    => /\ ~task[t].result.success
                       /\ ~task[t].result.threw
                       /\ task[t].result.msg = "pick_between_1_and"
                       /\ task[t].result.count = N

\* a pick above the number of stored candidates was refused
C7_Witness ==
    \E t \in Tasks :
        /\ Done(t, "pick")
        /\ task[t].pending # Undefined
        /\ task[t].n > Len(task[t].pending.results)
        /\ task[t].result.msg = "pick_between_1_and"

\* the remote list could not be fetched: no page could be had, or reading
\* the list page threw inside getListItems
RemoteFetchFailed(t) ==
    LET c == LastCall(task[t]) IN c.out = "nopage" \/ ~c.ok

\* C8 (as claimed): a list whose remote fetch failed returns a success
\* labelled as cached, whose items are the rows of the local mirror.
C8_ListFallsBackToMirror ==
    \A t \in Tasks :
        Done(t, "list") /\ RemoteFetchFailed(t)
            => /\ task[t].result.success
               /\ task[t].result.msg = "cached_list"
               /\ task[t].result.items = getGroceryItems(groceryItems)

\* C10 (as claimed): an add whose cache search returned a case-insensitive
\* exact match ends with the item added from past purchases; no
\* PendingSelection is stored and no menu is returned.
C10_ExactMatchAlwaysResolves ==
    [][\A t \in Tasks :
        Returns(t) /\ task'[t].kind = "add" /\ task'[t].exact # NoCandidate
        => /\ task'[t].result.msg = "added_past"
           /\ pendingSelections' = pendingSelections]_vars

\* C10 (amended): an add whose cache search returned a case-insensitive exact
\* match never returns the menu straight from the search: it first tries the
\* remote add of that candidate's index through My Items.  If that add
\* reports success, the candidate's name is recorded in the mirror and the
\* command succeeds with no PendingSelection stored; if it reports failure
\* the command stores the cache candidates as a PendingSelection and returns
\* the menu; if the page call throws, the command fails and stores nothing.
C10_ExactMatchResolvesIfAddSucceeds ==
    [][\A t \in Tasks :
        /\ task[t].pc = "add_searchMyItems" /\ task'[t].result.msg = "menu_past"
           => \A i \in 1..Len(task'[t].results) :
                 toLowerCase(task'[t].results[i].name) # toLowerCase(task'[t].item)
        /\ task[t].pc = "add_searchMyItems" /\ task'[t].pc = "add_addMyItem"
           => /\ toLowerCase(task'[t].exact.name) = toLowerCase(task'[t].item)
              /\ \E i \in 1..Len(task'[t].results) :
                    task'[t].results[i] = task'[t].exact
        /\ task[t].pc = "add_addMyItem" /\ Returns(t)
           => LET c == LastCall(task'[t])
              IN  /\ c.op = "addMyItemToList"
                  /\ c.query = task[t].item
                  /\ c.index = task[t].exact.index
                  /\ CASE c.out # "ok" ->
                            /\ ~task'[t].result.success
                            /\ task'[t].result.msg = "failed_search"
                            /\ UNCHANGED <<pendingSelections, groceryItems>>
                       [] c.out = "ok" /\ c.ok ->
                            /\ task'[t].result.success
                            /\ task'[t].result.msg = "added_past"
                            /\ groceryItems' = Append(groceryItems, task[t].exact.name)
                            /\ UNCHANGED pendingSelections
                       [] OTHER ->
                            /\ task'[t].result.msg = "menu_past"
                            /\ MapGet(pendingSelections', SessionKey).source = "myItems"
                            /\ UNCHANGED groceryItems]_vars

\* an add found "milk" for "Milk" in the cache and added it directly
C10_Witness ==
    \E t \in Tasks :
        /\ Done(t, "add")
        /\ task[t].result.msg = "added_past"
        /\ task[t].exact.name # task[t].item
        /\ Len(groceryItems) > 0
        /\ groceryItems[Len(groceryItems)] = task[t].exact.name

\* the function of list.ts that the command's last withPage call ran returned
\* to the handler
Returned(me, op) ==
    LET c == LastCall(me) IN c.op = op /\ c.out = "ok"

\* the one entry that a menu leaves in the store
Stored(me, source) ==
    {[key |-> SessionKey, val |-> Selection(me.item, me.found, source, now)]}

\* the menu lists the candidates in order, numbered from 1
Numbered(me) ==
    /\ Len(me.result.items) = Len(me.found)
    /\ \A i \in 1..Len(me.found) :
        me.result.items[i] = [num |-> i, name |-> me.found[i].name]

\* C11: an add whose cache search returned one or more candidates, none equal
\* to the item ignoring case, returns at once: that search is its only page
\* call (no remote add, no catalog search), the store holds a PendingSelection
\* with source myItems and exactly the returned candidates in order, the
\* reply is the menu numbered from 1, and the mirror is unchanged.
C11_CacheCandidatesGiveMenu ==
    [][\A t \in Tasks :
        /\ task[t].pc = "add_searchMyItems"
        /\ task'[t].pc # "add_searchMyItems"
        /\ Returned(task'[t], "searchMyItems")
        /\ Len(task'[t].found) >= 1
        /\ \A i \in 1..Len(task'[t].found) :
              toLowerCase(task'[t].found[i].name) # toLowerCase(task[t].item)
        => /\ Returns(t)
           /\ Len(task'[t].calls) = 1
           /\ task'[t].result.success
           /\ task'[t].result.msg = "menu_past"
           /\ Numbered(task'[t])
           /\ pendingSelections' = Stored(task'[t], "myItems")
           /\ groceryItems' = groceryItems]_vars

\* an add of "2%" got two candidates, neither equal to it, and returned the
\* menu of both
C11_Witness ==
    \E t \in Tasks :
        /\ Done(t, "add")
        /\ task[t].result.msg = "menu_past"
        /\ Len(task[t].calls) = 1
        /\ Len(task[t].found) = 2
        /\ task[t].exact = NoCandidate
        /\ MapGet(pendingSelections, SessionKey).results = task[t].found
        /\ task[t].result.items[2].num = 2

\* the catalog search of the command returned to the handler
CatalogReturned(me) ==
    \E i \in DOMAIN me.calls :
        me.calls[i].op = "searchProducts" /\ me.calls[i].out = "ok"

\* C12 (as claimed): after a catalog search, a PendingSelection with source
\* search is stored if and only if the search returned more than one result;
\* exactly one result is resolved at once (result 0 added remotely and
\* recorded in the mirror) and no PendingSelection is created.
C12_PendingIffManyResults ==
    [][\A t \in Tasks :
        Returns(t) /\ CatalogReturned(task'[t])
        => /\ task'[t].result.msg = "menu_found" <=> Len(task'[t].found) > 1
           /\ Len(task'[t].found) = 1 =>
                 /\ task'[t].result.msg = "added"
                 /\ groceryItems' = Append(groceryItems, task'[t].found[1].name)
                 /\ pendingSelections' = pendingSelections]_vars

\* C12 (amended): after a catalog search that returned to the handler, no
\* result gives the failure 'couldn't find'; more than one result stores a
\* PendingSelection with source search and returns the menu, with no remote
\* add; exactly one result leads to the remote add of result 0, and then: if
\* that add reports success the name is recorded in the mirror and nothing is
\* stored; if it reports failure the one candidate is stored as a
\* PendingSelection with source search and a one-option menu is returned; if
\* the page call throws, the command fails and stores nothing.
C12_PendingIfManyOrAddFailed ==
    [][\A t \in Tasks :
        /\ task[t].pc \in {"add_searchProducts", "search_searchProducts"}
           /\ task'[t].pc \in {"add_addSearchResult", "search_addSearchResult"}
           => Len(task'[t].found) = 1 /\ UNCHANGED <<pendingSelections, groceryItems>>
        /\ Returns(t) /\ CatalogReturned(task'[t])
           => LET me == task'[t]
                  c == LastCall(me)
              IN  CASE Len(me.found) = 0 ->
                         /\ ~me.result.success
                         /\ me.result.msg = "couldnt_find"
                         /\ UNCHANGED <<pendingSelections, groceryItems>>
                    [] Len(me.found) > 1 ->
                         /\ c.op = "searchProducts"
                         /\ me.result.msg = "menu_found"
                         /\ pendingSelections' = Stored(me, "search")
                         /\ UNCHANGED groceryItems
                    [] OTHER ->
                         /\ c.op = "addSearchResultToList"
                         /\ c.query = me.item
                         /\ c.index = 0
                         /\ CASE c.out # "ok" ->
                                   /\ ~me.result.success
                                   /\ me.result.msg = "failed_search"
                                   /\ UNCHANGED <<pendingSelections, groceryItems>>
                              [] c.out = "ok" /\ c.ok ->
                                   /\ me.result.success
                                   /\ me.result.msg = "added"
                                   /\ groceryItems' =
                                        Append(groceryItems, me.found[1].name)
                                   /\ UNCHANGED pendingSelections
                              [] OTHER ->
                                   /\ me.result.msg = "menu_found"
                                   /\ Len(me.result.items) = 1
                                   /\ pendingSelections' = Stored(me, "search")
                                   /\ UNCHANGED groceryItems]_vars

\* a search got exactly one result and added it, and nothing is stored
C12_Witness ==
    \E t \in Tasks :
        /\ Done(t, "search")
        /\ Len(task[t].found) = 1
        /\ task[t].result.msg = "added"
        /\ LastCall(task[t]).op = "addSearchResultToList"
        /\ groceryItems = <<task[t].found[1].name>>
        /\ pendingSelections = {}

\* C13: an add whose cache search and catalog search both returned no result
\* fails with 'couldn't find': the two searches are its only page calls (no
\* remote add), and from the cache search on neither the store nor the
\* mirror changes.
C13_NothingFoundFails ==
    [][\A t \in Tasks :
        /\ task[t].pc = "add_searchMyItems" /\ task'[t].pc = "add_searchProducts"
           => /\ Returned(task'[t], "searchMyItems")
              /\ Len(task'[t].found) = 0
              /\ UNCHANGED <<pendingSelections, groceryItems>>
        /\ task[t].pc = "add_searchProducts"
           /\ task'[t].pc # "add_searchProducts"
           /\ Returned(task'[t], "searchProducts")
           /\ Len(task'[t].found) = 0
           => /\ Returns(t)
              /\ ~task'[t].result.success
              /\ ~task'[t].result.threw
              /\ task'[t].result.msg = "couldnt_find"
              /\ task'[t].result.name = task[t].item
              /\ Len(task'[t].calls) = 2
              /\ task'[t].calls[1].op = "searchMyItems"
              /\ task'[t].calls[2].op = "searchProducts"
              /\ UNCHANGED <<pendingSelections, groceryItems>>]_vars

\* an add found nothing in either place and failed, and the selection that
\* was stored before it is still there
C13_Witness ==
    \E t \in Tasks :
        /\ Done(t, "add")
        /\ task[t].result.msg = "couldnt_find"
        /\ Len(task[t].calls) = 2
        /\ task[t].found = <<>>
        /\ MapHas(pendingSelections, SessionKey)
        /\ groceryItems = <<>>

\* the page functions of the catalog path
CatalogOps == {"searchProducts", "addSearchResultToList"}

\* C14: a search never runs the cache (My Items) search or the add from My
\* Items: its first page call is the catalog search, and every call is one of
\* the catalog path; when the catalog search has returned, no result fails
\* with 'couldn't find', one result leads to the remote add of result 0, and
\* more give the menu; any PendingSelection a search stores has source search.
C14_SearchSkipsCache ==
    /\ [](\A t \in Tasks :
            task[t].kind = "search" =>
                /\ \A i \in DOMAIN task[t].calls :
                      task[t].calls[i].op \in CatalogOps
                /\ task[t].calls # <<>> => task[t].calls[1].op = "searchProducts")
    /\ [][\A t \in Tasks :
            /\ task[t].pc = "idle" /\ task'[t].kind = "search"
               => task'[t].pc = "search_searchProducts"
            /\ task[t].pc = "search_searchProducts"
               /\ task'[t].pc # "search_searchProducts"
               /\ Returned(task'[t], "searchProducts")
               => CASE Len(task'[t].found) = 0 ->
                         Returns(t) /\ task'[t].result.msg = "couldnt_find"
                    [] Len(task'[t].found) = 1 ->
                         task'[t].pc = "search_addSearchResult"
                    [] OTHER ->
                         Returns(t) /\ task'[t].result.msg = "menu_found"
            /\ task[t].kind = "search" /\ pendingSelections' # pendingSelections
               => /\ task'[t].result.msg = "menu_found"
                  /\ pendingSelections' = Stored(task'[t], "search")]_vars

\* a search for "milk", with "milk" among the products, went to the catalog
\* only and returned the menu of two
C14_Witness ==
    \E t \in Tasks :
        /\ Done(t, "search")
        /\ task[t].item = "milk"
        /\ Len(task[t].calls) = 1
        /\ task[t].calls[1].op = "searchProducts"
        /\ task[t].result.msg = "menu_found"
        /\ task[t].found[1].name = "milk"
        /\ Len(task[t].found) = 2
        /\ MapGet(pendingSelections, SessionKey).source = "search"

\* C15: a pick with n within 1..N takes the n-th stored candidate and runs
\* the remote add of the stored source (myItems: addMyItemToList, search:
\* addSearchResultToList) with the stored query and the index stored with
\* that candidate; if the add reports success the candidate's name is
\* appended to the mirror, otherwise the mirror is unchanged.
C15_PickUsesStoredSourceAndIndex ==
    [][\A t \in Tasks :
        /\ task[t].pc = "idle" /\ task'[t].pc = "pick_add"
           => LET pending == MapGet(pendingSelections, SessionKey)
              IN  /\ task'[t].pending = pending
                  /\ task'[t].n \in 1..Len(pending.results)
                  /\ task'[t].selectedItem = pending.results[task'[t].n]
        /\ task[t].pc = "pick_add" /\ Returns(t)
           => LET c == LastCall(task'[t])
                  pending == task[t].pending
                  candidate == pending.results[task[t].n]
              IN  /\ Len(task'[t].calls) = 1
                  /\ c.op = IF pending.source = "myItems"
                            THEN "addMyItemToList"
                            ELSE "addSearchResultToList"
                  /\ c.query = pending.query
                  /\ c.index = candidate.index
                  /\ IF c.out = "ok" /\ c.ok
                     THEN /\ task'[t].result.success
                          /\ task'[t].result.msg = "added"
                          /\ task'[t].result.name = candidate.name
                          /\ groceryItems' = Append(groceryItems, candidate.name)
                     ELSE /\ ~task'[t].result.success
                          /\ groceryItems' = groceryItems]_vars

\* pick 1 took the first candidate of a cache selection, "2% milk", which
\* stood second on the My Items page: index 1 was passed, not 0
C15_Witness ==
    \E t \in Tasks :
        /\ Done(t, "pick")
        /\ task[t].result.success
        /\ task[t].n = 1
        /\ task[t].pending.source = "myItems"
        /\ LastCall(task[t]).op = "addMyItemToList"
        /\ LastCall(task[t]).query = task[t].pending.query
        /\ LastCall(task[t]).index = 1
        /\ groceryItems = <<"2% milk">>

\* the names of the candidates, in order
NamesOf(results) == [i \in 1..Len(results) |-> results[i].name]

\* the scenario: add("milk"), and the cache search returned "milk" and
\* "2% milk" to the handler
MilkScenario(me) ==
    /\ me.kind = "add"
    /\ me.item = "milk"
    /\ me.calls # <<>>
    /\ me.calls[1].op = "searchMyItems"
    /\ me.calls[1].out = "ok"
    /\ \A i \in DOMAIN me.calls : me.calls[i].op # "searchProducts"
    /\ NamesOf(me.found) = <<"milk", "2% milk">>

\* C16 (as claimed): add("milk"), when the cache search returns "milk" and
\* "2% milk", returns a menu of two options and stores a PendingSelection
\* with source myItems (no page call of the command having thrown).
C16_MilkGivesMenu ==
    \A t \in Tasks :
        /\ task[t].pc = "done"
        /\ MilkScenario(task[t])
        /\ \A i \in DOMAIN task[t].calls : task[t].calls[i].out = "ok"
        => /\ task[t].result.msg = "menu_past"
           /\ Len(task[t].result.items) = 2
           /\ MapGet(pendingSelections, SessionKey).source = "myItems"
           /\ MapGet(pendingSelections, SessionKey).results = task[t].found

\* C16 (amended): add("milk"), when the cache search returns "milk" and
\* "2% milk": the candidate "milk" equals the item, so no menu is returned
\* from the search; the remote add of "milk" from My Items is made.  If it
\* reports success the reply is 'added from your past purchases', "milk" is
\* recorded in the mirror and nothing is stored; only if it reports failure
\* are the two candidates stored with source myItems and the menu of two
\* returned; if the page call throws, the add fails and stores nothing.
C16_MilkIsAddedDirectly ==
    [][\A t \in Tasks :
        /\ task[t].pc = "add_searchMyItems"
           /\ task'[t].pc # "add_searchMyItems"
           /\ MilkScenario(task'[t])
           => /\ task'[t].pc = "add_addMyItem"
              /\ task'[t].exact = task'[t].found[1]
              /\ UNCHANGED <<pendingSelections, groceryItems>>
        /\ Returns(t) /\ MilkScenario(task'[t])
           => LET me == task'[t]
                  c == LastCall(me)
              IN  /\ Len(me.calls) = 2
                  /\ c.op = "addMyItemToList"
                  /\ c.query = "milk"
                  /\ c.index = me.found[1].index
                  /\ CASE c.out # "ok" ->
                            /\ ~me.result.success
                            /\ me.result.msg = "failed_search"
                            /\ UNCHANGED <<pendingSelections, groceryItems>>
                       [] c.out = "ok" /\ c.ok ->
                            /\ me.result.success
                            /\ me.result.msg = "added_past"
                            /\ me.result.name = "milk"
                            /\ groceryItems' = Append(groceryItems, "milk")
                            /\ UNCHANGED pendingSelections
                       [] OTHER ->
                            /\ me.result.msg = "menu_past"
                            /\ Len(me.result.items) = 2
                            /\ pendingSelections' = Stored(me, "myItems")
                            /\ UNCHANGED groceryItems]_vars

\* add("milk") got "milk" and "2% milk" from the cache and added "milk"
\* without a menu
C16_Witness ==
    \E t \in Tasks :
        /\ task[t].pc = "done"
        /\ MilkScenario(task[t])
        /\ task[t].result.msg = "added_past"
        /\ groceryItems = <<"milk">>
        /\ pendingSelections = {}

\* the failures of a pick before its try block
Refusals == {"no_pending", "pick_between_1_and"}

\* C17: a pick that finds no PendingSelection under the key (after the purge
\* of expired ones), or whose n is outside 1..N, returns its failure result in
\* the step in which it is called: no withPage call is made (so no page is
\* acquired and nothing remote happens) and the mirror is not written.
C17_RefusedPickStaysLocal ==
    /\ [][\A t \in Tasks :
            /\ task[t].pc = "idle"
            /\ task'[t].kind = "pick"
            /\ LET pending ==
                     MapGet(cleanupPendingSelections(pendingSelections, now),
                            SessionKey)
               IN  \/ pending = Undefined
                   \/ task'[t].n \notin 1..Len(pending.results)
            => /\ task'[t].pc = "done"
               /\ task'[t].result.msg \in Refusals
               /\ ~task'[t].result.success
               /\ ~task'[t].result.threw
               /\ task'[t].calls = <<>>
               /\ groceryItems' = groceryItems]_vars
    /\ [](\A t \in Tasks :
            Done(t, "pick") /\ task[t].result.msg \in Refusals
                => task[t].calls = <<>>)

\* pick 0 was refused without a page call, and the selection is still stored
C17_Witness ==
    \E t \in Tasks :
        /\ Done(t, "pick")
        /\ task[t].n = 0
        /\ task[t].pending # Undefined
        /\ task[t].result.msg = "pick_between_1_and"
        /\ task[t].calls = <<>>
        /\ MapGet(pendingSelections, SessionKey) = task[t].pending

\* a withPage call of the command threw
PageCallThrew(me) == \E i \in DOMAIN me.calls : me.calls[i].out # "ok"

\* C18: every command that has ended has returned a result object, never a
\* rejection; if a withPage call of it threw (no authenticated page, or the
\* state could not be saved), the result is a failure naming the error, or,
\* for list, the cached list.
C18_ExecuteNeverThrows ==
    \A t \in Tasks :
        task[t].pc = "done" =>
            /\ ~task[t].result.threw
            /\ task[t].result.msg # "none"
            /\ PageCallThrew(task[t]) =>
                  \/ /\ ~task[t].result.success
                     /\ task[t].result.name = ErrorOf(LastCall(task[t]).out)
                  \/ /\ task[t].kind = "list"
                     /\ task[t].result.msg = "cached_list"

\* an add whose remote add ran but whose state save threw returned a failure
\* result
C18_Witness ==
    \E t \in Tasks :
        /\ Done(t, "add")
        /\ Len(task[t].calls) = 2
        /\ LastCall(task[t]).out = "savefail"
        /\ ~task[t].result.success
        /\ ~task[t].result.threw
        /\ task[t].result.name = "save"

\* C19: when a clear returns, its only page call was clearList; if that call
\* returned success the mirror is empty and the count of the reply is the
\* number of rows the mirror held; if it reported failure, or withPage threw,
\* the result is a failure and the mirror is as it was.
C19_ClearMirrorsRemote ==
    [][\A t \in Tasks :
        task[t].pc = "clear_clearList" /\ Returns(t)
        => LET c == LastCall(task'[t])
           IN  /\ Len(task'[t].calls) = 1
               /\ c.op = "clearList"
               /\ IF c.out = "ok" /\ c.ok
                  THEN /\ task'[t].result.success
                       /\ task'[t].result.msg = "cleared"
                       /\ task'[t].result.count = Len(groceryItems)
                       /\ groceryItems' = <<>>
                  ELSE /\ ~task'[t].result.success
                       /\ ~task'[t].result.threw
                       /\ groceryItems' = groceryItems]_vars

\* a clear succeeded remotely, emptied the mirror and reported the one row
\* it removed
C19_Witness ==
    \E t \in Tasks :
        /\ Done(t, "clear")
        /\ task[t].result.msg = "cleared"
        /\ task[t].result.count = 1
        /\ groceryItems = <<>>

\* the entry was stored more than SELECTION_TIMEOUT ago
Expired(e) == now - e.val.timestamp > SELECTION_TIMEOUT

\* a command begins in this step
Arrives(t) == task[t].pc = "idle" /\ task'[t].pc # "idle"

\* C20: when a command of any kind arrives, the entries stored more than 5
\* minutes before are deleted and the others are kept; a pick that arrives
\* when the only entry is that old fails with 'no pending selection', while
\* one that arrives at 5 minutes or less still finds it; and the store changes
\* only in a step of a command, never because time passes.
C20_ExpiredPurgedOnArrival ==
    [][/\ \A t \in Tasks :
            /\ Arrives(t)
               => pendingSelections' = {e \in pendingSelections : ~Expired(e)}
            /\ Arrives(t) /\ task'[t].kind = "pick"
               => IF \A e \in pendingSelections : Expired(e)
                  THEN /\ task'[t].pc = "done"
                       /\ task'[t].result.msg = "no_pending"
                       /\ ~task'[t].result.success
                  ELSE /\ task'[t].pending = MapGet(pendingSelections, SessionKey)
                       /\ task'[t].result.msg # "no_pending"
       /\ pendingSelections' # pendingSelections
            => now' = now /\ \E t \in Tasks : task'[t] # task[t]
       /\ now' # now => pendingSelections' = pendingSelections]_vars

\* a pick arrived more than 5 minutes after the selection was stored: the
\* selection was purged and the pick failed with 'no pending selection'
C20_Witness ==
    \E t \in Tasks :
        /\ Done(t, "pick")
        /\ task[t].result.msg = "no_pending"
        /\ \E e \in task[t].purged : now - e.val.timestamp > SELECTION_TIMEOUT
        /\ task[t].n = 1
        /\ pendingSelections = {}

\* the list.ts functions that add a product to the remote list
AddOps == {"addMyItemToList", "addSearchResultToList"}

\* the last page call of the command was op, came back through withPage and
\* returned true
Succeeded(me, ops) ==
    /\ me.calls # <<>>
    /\ LastCall(me).op \in ops
    /\ LastCall(me).out = "ok"
    /\ LastCall(me).ok

\* C34: the mirror changes in a step of an add, search or pick only when the
\* command returns after a remote add that came back with true, and in a
\* step of a remove only when it returns after a remote removal that came
\* back with true; a remote call that returned false or threw leaves the
\* mirror as it was.
C34_MirrorOnlyAfterSuccess ==
    [][\A t \in Tasks :
        /\ (task'[t] # task[t] /\ task'[t].kind \in {"add", "search", "pick"}
                /\ groceryItems' # groceryItems)
            => /\ Returns(t)
               /\ Succeeded(task'[t], AddOps)
               /\ Len(groceryItems') = Len(groceryItems) + 1
        /\ (task'[t] # task[t] /\ task'[t].kind = "remove"
                /\ groceryItems' # groceryItems)
            => /\ Returns(t)
               /\ Succeeded(task'[t], {"removeItemFromList"})
               /\ Len(groceryItems') < Len(groceryItems)
        /\ (Returns(t) /\ task'[t].kind \in {"add", "search", "pick", "remove"}
                /\ ~Succeeded(task'[t], AddOps \cup {"removeItemFromList"}))
            => groceryItems' = groceryItems]_vars

\* the remote add of a pick ran and returned true, withPage threw when it
\* saved the state, and the mirror has no row
C34_Witness ==
    \E t \in Tasks :
        /\ Done(t, "pick")
        /\ task[t].calls # <<>>
        /\ LastCall(task[t]).op \in AddOps
        /\ LastCall(task[t]).out = "savefail"
        /\ LastCall(task[t]).ok
        /\ groceryItems = <<>>

\* C40: when the remote add of an add, search or pick has returned true, the
\* command returns a success and the mirror holds the name that was added.
C40_RemoteSuccessReported ==
    \A t \in Tasks :
        (/\ task[t].pc = "done"
         /\ task[t].kind \in {"add", "search", "pick"}
         /\ task[t].calls # <<>>
         /\ LastCall(task[t]).op \in AddOps
         /\ OperationRan(LastCall(task[t]).out)
         /\ LastCall(task[t]).ok)
            => /\ task[t].result.success
               /\ task[t].result.name \in {groceryItems[i] : i \in DOMAIN groceryItems}

----------------------------------------------------------------------------
(* llm/agent.ts: HansAgent.handleMessage.  The agent sends the message to  *)
(* the LLM and, while the response asks for tool calls, executes them and  *)
(* continues the conversation with their results.  Every await is a step.  *)
(* The LLM is the environment: any response may follow any request.  What  *)
(* a tool does to the grocery list is the matter of SpecAction; here a     *)
(* tool call yields the string that executeFunction returns.               *)

MaxCalls == 2

maxIterations == 5

KnownTools == {"show_grocery_list"}

ToolNames == KnownTools \cup {"frobnicate"}

\* an LLMResponse: an optional text and the function calls it asks for;
\* parts tells whether the candidate came with a list of parts, which it
\* did if it has a text or a function call
Responses ==
    {r \in [text : BOOLEAN, functionCalls : SeqUpTo(ToolNames, MaxCalls),
            parts : BOOLEAN] :
        r.text \/ Len(r.functionCalls) > 0 => r.parts}

----------------------------------------------------------------------------
(* llm/gemini.ts: GeminiService and its conversationHistory, a Map from    *)
(* the user to the list of Content entries.  Of an entry the model keeps   *)
(* the role, the text of a user message and the number of function calls   *)
(* of a model response.                                                    *)

HISTORY_CAP == 40

Users == {"owner@c.us", "other@c.us"}

Messages == {"hi"}

UserEntry(message) == [role |-> "user", text |-> message, calls |-> 0]

ModelEntry(response) ==
    [role |-> "model", text |-> "", calls |-> Len(response.functionCalls)]

FunctionEntry == [role |-> "function", text |-> "", calls |-> 0]

\* the history after n exchanges of a message and a text reply
RECURSIVE Turns(_)
Turns(n) ==
    IF n = 0 THEN <<>>
    ELSE Turns(n - 1) \o
         <<UserEntry(IF n % 2 = 1 THEN "hi" ELSE "add milk"),
           ModelEntry([functionCalls |-> <<>>])>>

\* this.conversationHistory.get(userId) || []
HistoryOf(m, userId) == IF MapHas(m, userId) THEN MapGet(m, userId) ELSE <<>>

\* the mutation of SliceLast: the history is never cut
SliceLastNever(history) == history

\* chat, lines 152-155: history.slice(-40) when the history exceeds 40
SliceLast(history) ==
    IF Len(history) > HISTORY_CAP
    THEN SubSeq(history, Len(history) - HISTORY_CAP + 1, Len(history))
    ELSE history

\* chat, lines 170-196: the message and, if the response has a text or a
\* function call, the response are pushed
chat(history, message, response) ==
    IF response.text \/ Len(response.functionCalls) > 0
    THEN history \o <<UserEntry(message), ModelEntry(response)>>
    ELSE Append(history, UserEntry(message))

\* continueWithFunctionResults, lines 251-265: the response is pushed if its
\* candidate has parts
continueWithFunctionResults(m, userId, response) ==
    IF response.parts
    THEN MapSet(m, userId, Append(HistoryOf(m, userId), ModelEntry(response)))
    ELSE m

\* the mutation of clearHistory: the whole Map is cleared
clearHistoryAll(m, userId) == {}

\* clearHistory, lines 279-282: the entry of the user is deleted
clearHistory(m, userId) == MapDelete(m, userId)

\* executeFunction catches what the action throws and always returns a string
executeFunction(name, threw) ==
    IF name \notin KnownTools THEN "unknown_function"
    ELSE IF threw THEN "error_executing"
    ELSE "message"

\* the condition of the while loop
LoopGuardInclusive(response, iterations) ==
    /\ Len(response.functionCalls) > 0
    /\ iterations <= maxIterations

LoopGuard(response, iterations) ==
    /\ Len(response.functionCalls) > 0
    /\ iterations < maxIterations

\* the mutation of FinalReply: the text is returned without the fallback
FinalReplyTextOnly(response) == IF response.text THEN "text" ELSE "none"

\* what handleMessage returns after the loop: the text of the last response,
\* or "Done!" when it has none
FinalReply(response) == IF response.text THEN "text" ELSE "Done!"

\* the head of the while loop, entered with a fresh response: either one more
\* batch of tool calls begins, or the final reply is returned
Loop(a, response) ==
    IF LoopGuard(response, a.iterations)
    THEN [a EXCEPT !.response = response,
                   !.iterations = a.iterations + 1,
                   !.batches = a.batches + 1,
                   !.call = 1,
                   !.added = <<>>,
                   !.pc = "executeFunction"]
    ELSE [a EXCEPT !.response = response,
                   !.pc = "done",
                   !.reply = FinalReply(response)]

\* handleMessage up to the await in chat.  One call is followed, from any of
\* the histories the model begins with or from the one clearContext leaves.
HandleMessage(userId, message) ==
    /\ agent.pc = "idle"
    /\ ~called
    /\ called' = TRUE
    /\ agent' = [IdleAgent EXCEPT
            !.pc = "chat", !.userId = userId, !.message = message,
            !.before = HistoryOf(conversationHistory, userId),
            !.history = SliceLast(HistoryOf(conversationHistory, userId))]
    /\ UNCHANGED conversationHistory

ChatDone ==
    /\ agent.pc = "chat"
    /\ \E response \in Responses :
        /\ agent' = [Loop(agent, response) EXCEPT !.history = <<>>]
        /\ conversationHistory' =
                MapSet(conversationHistory, agent.userId,
                       chat(agent.history, agent.message, response))
    /\ UNCHANGED called

Caught ==
    \E reply \in {"api_key", "sorry"} :
        agent' = [agent EXCEPT !.pc = "done", !.reply = reply, !.caught = TRUE]

ChatThrows ==
    /\ agent.pc = "chat"
    /\ Caught
    /\ UNCHANGED <<conversationHistory, called>>

\* the mutation of addFunctionResult: an unknown tool leaves no result
addFunctionResultKnownOnly(added, name) ==
    IF name \in KnownTools THEN Append(added, name) ELSE added

\* addFunctionResult, as the agent sees it: the names under which results
\* were handed to the conversation service since the last response, in the
\* order handed over; the result handed over last is agent.result
addFunctionResult(added, name) == Append(added, name)

\* one call of the batch has been executed and its result added to the
\* history; after the last one continueWithFunctionResults is invoked
FunctionDone ==
    /\ agent.pc = "executeFunction"
    /\ \E threw \in BOOLEAN :
        LET name == agent.response.functionCalls[agent.call]
            result == executeFunction(name, threw)
            added == addFunctionResult(agent.added, name)
        IN  IF agent.call < Len(agent.response.functionCalls)
            THEN agent' = [agent EXCEPT !.call = agent.call + 1,
                                        !.result = result,
                                        !.added = added]
            ELSE agent' = [agent EXCEPT !.pc = "continue",
                                        !.result = result,
                                        !.added = added,
                                        !.continues = agent.continues + 1]
    /\ conversationHistory' =
            MapSet(conversationHistory, agent.userId,
                   Append(HistoryOf(conversationHistory, agent.userId),
                          FunctionEntry))
    /\ UNCHANGED called

ContinueDone ==
    /\ agent.pc = "continue"
    /\ \E response \in Responses :
        /\ agent' = Loop(agent, response)
        /\ conversationHistory' =
                continueWithFunctionResults(conversationHistory, agent.userId,
                                            response)
    /\ UNCHANGED called

ContinueThrows ==
    /\ agent.pc = "continue"
    /\ Caught
    /\ UNCHANGED <<conversationHistory, called>>

AgentReturn ==
    /\ agent.pc = "done"
    /\ agent' = IdleAgent
    /\ UNCHANGED <<conversationHistory, called>>

\* clearContext, called while no handleMessage is running
ClearContext(userId) ==
    /\ agent.pc = "idle"
    /\ conversationHistory' = clearHistory(conversationHistory, userId)
    /\ UNCHANGED <<agent, called>>

RestAction ==
    /\ pendingSelections = {}
    /\ groceryItems = <<>>
    /\ now = 0
    /\ task = <<>>

InitAgent == RestAction /\ RestAgent /\ RestPool /\ RestBrowser /\ RestHandler /\ RestUsers /\ RestChats /\ RestTools

\* the agent after earlier conversations: the owner has the history of 20 or
\* of 21 exchanges of a message and a text reply (40 and 42 entries), the
\* other user that of one exchange
Histories == {Turns(20), Turns(21)}

InitChat ==
    /\ RestAction /\ RestPool /\ RestBrowser /\ RestHandler /\ RestUsers /\ RestChats /\ RestTools
    /\ agent = IdleAgent
    /\ called = FALSE
    /\ \E h \in Histories :
        conversationHistory =
            {[key |-> "owner@c.us", val |-> h], [key |-> "other@c.us", val |-> Turns(1)]}

NextAgent ==
    \/ \E u \in Users, m \in Messages : HandleMessage(u, m) /\ UNCHANGED <<actionVars, poolVars, browserVars, handlerVars, userVars, chatVars, toolVars>>
    \/ \E u \in Users : ClearContext(u) /\ UNCHANGED <<actionVars, poolVars, browserVars, handlerVars, userVars, chatVars, toolVars>>
    \/ ChatDone /\ UNCHANGED <<actionVars, poolVars, browserVars, handlerVars, userVars, chatVars, toolVars>>
    \/ ChatThrows /\ UNCHANGED <<actionVars, poolVars, browserVars, handlerVars, userVars, chatVars, toolVars>>
    \/ FunctionDone /\ UNCHANGED <<actionVars, poolVars, browserVars, handlerVars, userVars, chatVars, toolVars>>
    \/ ContinueDone /\ UNCHANGED <<actionVars, poolVars, browserVars, handlerVars, userVars, chatVars, toolVars>>
    \/ ContinueThrows /\ UNCHANGED <<actionVars, poolVars, browserVars, handlerVars, userVars, chatVars, toolVars>>
    \/ AgentReturn /\ UNCHANGED <<actionVars, poolVars, browserVars, handlerVars, userVars, chatVars, toolVars>>

SpecAgent == InitAgent /\ [][NextAgent]_vars

\* every LLM call and every tool execution that was started comes back
Settles ==
    /\ \/ ChatDone \/ ChatThrows
       \/ FunctionDone
       \/ ContinueDone \/ ContinueThrows
    /\ UNCHANGED <<actionVars, poolVars, browserVars, handlerVars, userVars, chatVars, toolVars>>

SpecAgentFair == SpecAgent /\ WF_vars(Settles)

SpecChat == InitChat /\ [][NextAgent]_vars

----------------------------------------------------------------------------
(* Properties of HansAgent.                                                *)

\* C2: whatever the LLM answers, one handleMessage invokes
\* continueWithFunctionResults at most 5 times and begins at most 5 batches
\* of tool calls.
C2_AtMostFiveContinuations ==
    /\ agent.continues <= 5
    /\ agent.batches <= 5

\* a handleMessage that ran its fifth continuation and returned although
\* the LLM asked for yet another tool call
C2_Witness ==
    /\ agent.pc = "done"
    /\ agent.continues = 5
    /\ agent.batches = 5
    /\ Len(agent.response.functionCalls) > 0

\* the calls of the batch that have been executed
Executed ==
    IF agent.pc = "executeFunction"
    THEN SubSeq(agent.response.functionCalls, 1, agent.call - 1)
    ELSE agent.response.functionCalls

\* C30: while a batch is executed the results handed to addFunctionResult
\* are those of the calls already executed, one per call, under the call's
\* name and in the order of the response, a call of an unknown tool or one
\* that failed included; continueWithFunctionResults is invoked only when
\* every call of the response has its result.
C30_ResultsRecordedInOrder ==
    agent.pc \in {"executeFunction", "continue"}
        => /\ agent.call \in 1..Len(agent.response.functionCalls)
           /\ agent.added = Executed
           /\ agent.pc = "continue" => agent.call = Len(agent.response.functionCalls)
           /\ Len(agent.added) > 0
                => /\ agent.result \in {"message", "error_executing", "unknown_function"}
                   /\ agent.result = "unknown_function"
                        <=> agent.added[Len(agent.added)] \notin KnownTools

\* a batch of two calls, the first of a known tool and the second of an
\* unknown tool, both recorded before the continuation
C30_Witness ==
    /\ agent.pc = "continue"
    /\ agent.added = <<"show_grocery_list", "frobnicate">>
    /\ agent.result = "unknown_function"

\* the replies of the catch block of handleMessage
Fallbacks == {"api_key", "sorry"}

\* C22: provided every LLM call and tool execution comes back, a handleMessage
\* that was started reaches its return, and what it returns is a fallback
\* message when an error was caught, else the text of the last response, else
\* "Done!" when that response has no text, the response that ended the loop
\* at the cap of 5 iterations included.
C22_HandleMessageReplies ==
    /\ [](agent.pc = "done" =>
            IF agent.caught THEN agent.reply \in Fallbacks
            ELSE IF agent.response.text THEN agent.reply = "text"
            ELSE agent.reply = "Done!")
    /\ (agent.pc \notin {"idle", "done"}) ~> (agent.pc = "done")

\* the loop ended at the cap with a response that still asks for a tool and
\* has no text, and handleMessage returned "Done!"
C22_Witness ==
    /\ agent.pc = "done"
    /\ ~agent.caught
    /\ agent.iterations = maxIterations
    /\ Len(agent.response.functionCalls) > 0
    /\ ~agent.response.text
    /\ agent.reply = "Done!"

\* C23: when the conversation service fails during a handleMessage, in the
\* first chat or in a continuation, the call returns a fallback reply and the
\* stored history of the user is the one from before the call.
C23_FailureLeavesHistory ==
    agent.pc = "done" /\ agent.caught
        => /\ agent.reply \in Fallbacks
           /\ HistoryOf(conversationHistory, agent.userId) = agent.before

\* the entries one handleMessage can append to the history it began with: the
\* message and the first response, and for each iteration the results of the
\* batch and the response that follows
MaxAppended == 2 + maxIterations * (MaxCalls + 1)

\* s ends with t
IsSuffix(t, s) ==
    /\ Len(t) <= Len(s)
    /\ \A i \in 1..Len(t) : t[i] = s[Len(s) - Len(t) + i]

\* the first chat of the running handleMessage has stored its entries
ChatStored ==
    /\ agent.pc \in {"executeFunction", "continue", "done"}
    /\ ~(agent.caught /\ agent.iterations = 0)

\* C24 as claimed: when a handleMessage has ended, the stored history of its
\* user holds at most 40 entries.
C24_StoredAtMostCap ==
    agent.pc = "done"
        => Len(HistoryOf(conversationHistory, agent.userId)) <= HISTORY_CAP

\* C24: the history a chat begins from is the stored one cut to its last 40
\* entries, in their order, and what is stored from then on begins with these
\* entries and exceeds the cut history by no more than what the one
\* handleMessage appends.
C24_CutAtChatStart ==
    /\ agent.pc = "chat"
        => /\ Len(agent.history) <= HISTORY_CAP
           /\ IsSuffix(agent.history, agent.before)
           /\ Len(agent.before) >= HISTORY_CAP
                => Len(agent.history) = HISTORY_CAP
    /\ ChatStored
        => LET stored == HistoryOf(conversationHistory, agent.userId)
               kept == IF Len(agent.before) > HISTORY_CAP
                       THEN HISTORY_CAP ELSE Len(agent.before)
           IN  /\ Len(stored) > kept
               /\ Len(stored) <= kept + MaxAppended
               /\ IsSuffix(SubSeq(stored, 1, kept), agent.before)

\* a handleMessage that began from 42 stored entries dropped the two oldest
\* and ended with more than 40 stored
C24_Witness ==
    /\ agent.pc = "done"
    /\ ~agent.caught
    /\ Len(agent.before) = HISTORY_CAP + 2
    /\ LET stored == HistoryOf(conversationHistory, agent.userId)
       IN  /\ Len(stored) > HISTORY_CAP
           /\ stored[1] = agent.before[3]
           /\ stored[1] # agent.before[1]

\* C25: clearContext(u), called while no handleMessage is running, removes
\* the history of u and of nobody else and leaves the pending selections as
\* they are; no history of u comes back but by a message of u, and the next
\* message of u begins from the empty history.
C25_ClearContextDiscardsOne ==
    [][\A u \in Users :
        /\ ClearContext(u)
            => /\ ~MapHas(conversationHistory', u)
               /\ \A v \in Users \ {u} :
                    /\ MapHas(conversationHistory', v) = MapHas(conversationHistory, v)
                    /\ HistoryOf(conversationHistory', v) = HistoryOf(conversationHistory, v)
               /\ pendingSelections' = pendingSelections
        /\ (~MapHas(conversationHistory, u) /\ MapHas(conversationHistory', u))
            => (agent.pc # "idle" /\ agent.userId = u)
        /\ (~MapHas(conversationHistory, u) /\ agent.pc = "idle"
                /\ agent'.pc = "chat" /\ agent'.userId = u)
            => (agent'.history = <<>> /\ agent'.before = <<>>)]_vars

\* the owner had a history of 40 or 42 entries, it was cleared, and the
\* message that followed began from the empty history while the history of
\* the other user is still stored
C25_Witness ==
    /\ agent.pc = "chat"
    /\ agent.userId = "owner@c.us"
    /\ agent.before = <<>>
    /\ agent.history = <<>>
    /\ HistoryOf(conversationHistory, "other@c.us") = Turns(1)
    /\ ~MapHas(conversationHistory, "owner@c.us")

\* every model entry of the history that asks for function calls is followed
\* by as many function entries
Answered(history) ==
    \A i \in DOMAIN history :
        (history[i].role = "model" /\ history[i].calls > 0)
            => \A j \in (i + 1)..(i + history[i].calls) :
                    /\ j \in DOMAIN history
                    /\ history[j].role = "function"

\* C39: when handleMessage returns without having caught an error, every
\* tool request in the stored history of the user has its tool results after
\* it, also when the loop ended at its cap.
C39_RequestsAnswered ==
    (agent.pc = "done" /\ ~agent.caught)
        => Answered(HistoryOf(conversationHistory, agent.userId))

----------------------------------------------------------------------------
(* browser/pool.ts: BrowserPool.  A browser is named by the number of the  *)
(* chromium.launch that made it; a launch is launching, connected, failed  *)
(* or disconnected.  The promise held in initPromise is named by its       *)
(* launch too.  Every await is a step; the reactions to one settled        *)
(* promise run in one step, in the order in which they were registered.    *)

MaxLaunches == 2

Getters == DOMAIN getter

ContextNames == {"wegmans"}

IdleGetter ==
    [pc |-> "idle", op |-> "none", name |-> "", promise |-> Null,
     owner |-> FALSE, result |-> Null]

\* this.browser && this.browser.isConnected()
Connected(b) == b # Null /\ launch[b].state = "connected"

Launching == {l \in DOMAIN launch : launch[l].state = "launching"}

\* the mutation of the guard on initPromise: never join
InitInFlightNever(promise) == FALSE

\* if (this.initPromise)
InitInFlight(promise) == promise # Null

\* what the invocation does with the browser once it has it: getBrowser
\* returns it, getContext goes on to browser.newContext with the saved state
GotBrowser(me, b) ==
    IF me.op = "getBrowser"
    THEN [me EXCEPT !.pc = "returned", !.result = b]
    ELSE [me EXCEPT !.pc = "newContext", !.result = b]

\* getBrowser up to its first await: return the connected browser, join the
\* launch in flight, or start a launch and keep its promise in initPromise
getBrowser(g, me) ==
    IF Connected(browser)
    THEN /\ getter' = [getter EXCEPT ![g] = GotBrowser(me, browser)]
         /\ UNCHANGED <<initPromise, launch>>
    ELSE IF InitInFlight(initPromise)
    THEN /\ getter' = [getter EXCEPT ![g] =
                [me EXCEPT !.pc = "awaitInit", !.promise = initPromise]]
         /\ UNCHANGED <<initPromise, launch>>
    ELSE /\ Len(launch) < MaxLaunches
         /\ launch' = Append(launch, [state |-> "launching"])
         /\ initPromise' = Len(launch) + 1
         /\ getter' = [getter EXCEPT ![g] =
                [me EXCEPT !.pc = "awaitInit", !.promise = Len(launch) + 1,
                           !.owner = TRUE]]

GetBrowser(g) ==
    /\ getter[g].pc = "idle"
    /\ getBrowser(g, [IdleGetter EXCEPT !.op = "getBrowser"])
    /\ UNCHANGED <<browser, contexts>>

\* getContext up to its first await
GetContext(g) ==
    /\ getter[g].pc = "idle"
    /\ \E name \in ContextNames :
        LET me == [IdleGetter EXCEPT !.op = "getContext", !.name = name]
        IN  IF MapHas(contexts, name)
            THEN /\ getter' = [getter EXCEPT ![g] =
                        [me EXCEPT !.pc = "returned",
                                   !.result = MapGet(contexts, name)]]
                 /\ UNCHANGED <<initPromise, launch>>
            ELSE getBrowser(g, me)
    /\ UNCHANGED <<browser, contexts>>

\* the mutation of the finally block: initPromise is left as it is
FinallyKeeps(promise) == promise

\* getBrowser, lines 38-40: finally { this.initPromise = null }
Finally(promise) == Null

\* chromium.launch resolves: initBrowser registers the 'disconnected' handler
\* and returns, the owner of the launch stores the browser and clears
\* initPromise, and everyone who awaits the promise receives the browser
LaunchDone(l) ==
    /\ launch[l].state = "launching"
    /\ launch' = [launch EXCEPT ![l].state = "connected"]
    /\ browser' = l
    /\ initPromise' = Finally(initPromise)
    /\ getter' = [g \in Getters |->
        IF getter[g].pc = "awaitInit" /\ getter[g].promise = l
        THEN GotBrowser(getter[g], l)
        ELSE getter[g]]
    /\ UNCHANGED contexts

\* chromium.launch rejects: the owner clears initPromise in its finally, and
\* everyone who awaits the promise receives the rejection
LaunchFails(l) ==
    /\ launch[l].state = "launching"
    /\ launch' = [launch EXCEPT ![l].state = "failed"]
    /\ initPromise' = Finally(initPromise)
    /\ getter' = [g \in Getters |->
        IF getter[g].pc = "awaitInit" /\ getter[g].promise = l
        THEN [getter[g] EXCEPT !.pc = "thrown", !.result = Null]
        ELSE getter[g]]
    /\ UNCHANGED <<browser, contexts>>

\* the browser goes away and its 'disconnected' handler runs
Disconnected(b) ==
    /\ launch[b].state = "connected"
    /\ launch' = [launch EXCEPT ![b].state = "disconnected"]
    /\ browser' = Null
    /\ contexts' = {}
    /\ UNCHANGED <<initPromise, getter>>

\* a context is named by its browser and by the invocation that created it;
\* stored tells whether it was created from the saved state
Context(b, g, stored) == [browser |-> b, by |-> g, stored |-> stored]

\* the mutation of NewContextFailed: no second attempt
NewContextFailedThrows(me) == [me EXCEPT !.pc = "thrown", !.result = Null]

\* browser.newContext rejected: the attempt with the saved state is caught
\* and followed by one without it, whose rejection getContext throws
NewContextFailed(me) ==
    IF me.pc = "newContext"
    THEN [me EXCEPT !.pc = "newContextFresh"]
    ELSE [me EXCEPT !.pc = "thrown", !.result = Null]

\* browser.newContext settles: with the saved state it may reject (no state
\* file; browser gone), and then newContext is tried once more without it
NewContextDone(g) ==
    /\ getter[g].pc \in {"newContext", "newContextFresh"}
    /\ \E ok \in {x \in BOOLEAN : x => Connected(getter[g].result)} :
        LET me == getter[g]
            context == Context(me.result, g, me.pc = "newContext")
        IN  IF ok
            THEN /\ contexts' = MapSet(contexts, me.name, context)
                 /\ getter' = [getter EXCEPT ![g] =
                        [me EXCEPT !.pc = "returned", !.result = context]]
            ELSE /\ getter' = [getter EXCEPT ![g] = NewContextFailed(me)]
                 /\ UNCHANGED contexts
    /\ UNCHANGED <<browser, initPromise, launch>>

GetterReturns(g) ==
    /\ getter[g].pc \in {"returned", "thrown"}
    /\ getter' = [getter EXCEPT ![g] = IdleGetter]
    /\ UNCHANGED <<browser, initPromise, launch, contexts>>

\* the names under which a context is registered
Keys(m) == {e.key : e \in m}

\* after the second loop of close: the map is cleared and, when the pool
\* holds a browser, browser.close() is awaited
CloseBrowser(c) ==
    /\ contexts' = {}
    /\ closer' = IF browser # Null
                 THEN [c EXCEPT !.pc = "closeBrowser", !.browser = browser]
                 ELSE [c EXCEPT !.pc = "returned"]

\* the head of the second loop of close, over contexts.values()
CloseContexts(c) ==
    IF Keys(contexts) \ c.released # {}
    THEN /\ closer' = [c EXCEPT !.pc = "closeContext",
                !.name = CHOOSE n \in Keys(contexts) \ c.released : TRUE]
         /\ UNCHANGED contexts
    ELSE CloseBrowser(c)

\* the head of the first loop of close, over contexts.keys()
SaveContexts(c) ==
    IF Keys(contexts) \ c.saved # {}
    THEN /\ closer' = [c EXCEPT !.pc = "saveContextState",
                !.name = CHOOSE n \in Keys(contexts) \ c.saved : TRUE]
         /\ UNCHANGED contexts
    ELSE CloseContexts(c)

\* close() up to its first await
Close ==
    /\ closer.pc = "idle"
    /\ SaveContexts(IdleCloser)
    /\ UNCHANGED <<browser, initPromise, launch, getter>>

\* context.storageState settles; its rejection leaves close()
SaveContextStateDone ==
    /\ closer.pc = "saveContextState"
    /\ \E ok \in BOOLEAN :
        IF ok
        THEN SaveContexts([closer EXCEPT !.saved = @ \cup {closer.name}])
        ELSE /\ closer' = [closer EXCEPT !.pc = "thrown"]
             /\ UNCHANGED contexts
    /\ UNCHANGED <<browser, initPromise, launch, getter>>

\* context.close settles; its rejection leaves close()
CloseContextDone ==
    /\ closer.pc = "closeContext"
    /\ \E ok \in BOOLEAN :
        IF ok
        THEN CloseContexts([closer EXCEPT !.released = @ \cup {closer.name}])
        ELSE /\ closer' = [closer EXCEPT !.pc = "thrown"]
             /\ UNCHANGED contexts
    /\ UNCHANGED <<browser, initPromise, launch, getter>>

\* browser.close settles: the browser is gone, its 'disconnected' handler has
\* run, and close() unsets this.browser; its rejection leaves close()
BrowserCloseDone ==
    /\ closer.pc = "closeBrowser"
    /\ \E ok \in BOOLEAN :
        IF ok
        THEN /\ launch' = [launch EXCEPT ![closer.browser].state = "disconnected"]
             /\ browser' = Null
             /\ contexts' = IF launch[closer.browser].state = "connected"
                            THEN {} ELSE contexts
             /\ closer' = [closer EXCEPT !.pc = "returned"]
        ELSE /\ closer' = [closer EXCEPT !.pc = "thrown"]
             /\ UNCHANGED <<browser, launch, contexts>>
    /\ UNCHANGED <<initPromise, getter>>

CloserReturns ==
    /\ closer.pc \in {"returned", "thrown"}
    /\ closer' = IdleCloser
    /\ UNCHANGED <<browser, initPromise, launch, contexts, getter>>

InitPool ==
    /\ RestAction /\ RestAgent /\ RestBrowser
    /\ browser = Null
    /\ initPromise = Null
    /\ launch = <<>>
    /\ contexts = {}
    /\ getter = [g \in {"g1", "g2", "g3"} |-> IdleGetter]
    /\ closer = IdleCloser
    /\ RestHandler /\ RestUsers /\ RestChats /\ RestTools

NextPool ==
    \/ \E g \in Getters : GetBrowser(g) /\ UNCHANGED <<actionVars, agentVars, browserVars, closer, handlerVars, userVars, chatVars, toolVars>>
    \/ \E g \in Getters : GetContext(g) /\ UNCHANGED <<actionVars, agentVars, browserVars, closer, handlerVars, userVars, chatVars, toolVars>>
    \/ \E l \in DOMAIN launch : LaunchDone(l) /\ UNCHANGED <<actionVars, agentVars, browserVars, closer, handlerVars, userVars, chatVars, toolVars>>
    \/ \E l \in DOMAIN launch : LaunchFails(l) /\ UNCHANGED <<actionVars, agentVars, browserVars, closer, handlerVars, userVars, chatVars, toolVars>>
    \/ \E b \in DOMAIN launch : Disconnected(b) /\ UNCHANGED <<actionVars, agentVars, browserVars, closer, handlerVars, userVars, chatVars, toolVars>>
    \/ \E g \in Getters : NewContextDone(g) /\ UNCHANGED <<actionVars, agentVars, browserVars, closer, handlerVars, userVars, chatVars, toolVars>>
    \/ \E g \in Getters : GetterReturns(g) /\ UNCHANGED <<actionVars, agentVars, browserVars, closer, handlerVars, userVars, chatVars, toolVars>>

SpecPool == InitPool /\ [][NextPool]_vars

\* the connection to the browser is lost: isConnected() is false from now on,
\* and the 'disconnected' event has not been delivered yet
ConnectionLost(b) ==
    /\ launch[b].state = "connected"
    /\ launch' = [launch EXCEPT ![b].state = "lost"]
    /\ UNCHANGED <<browser, initPromise, contexts, getter>>

\* the 'disconnected' event of b is delivered and the handler that initBrowser
\* registered on b runs, lines 58-62
DisconnectedEvent(b) ==
    /\ launch[b].state = "lost"
    /\ launch' = [launch EXCEPT ![b].state = "disconnected"]
    /\ browser' = Null
    /\ contexts' = {}
    /\ UNCHANGED <<initPromise, getter>>

\* the pool when the event may be delivered after the loss of the connection
\* has been seen by isConnected()
NextPoolLate ==
    \/ \E g \in Getters : GetBrowser(g) /\ UNCHANGED <<actionVars, agentVars, browserVars, closer, handlerVars, userVars, chatVars, toolVars>>
    \/ \E g \in Getters : GetContext(g) /\ UNCHANGED <<actionVars, agentVars, browserVars, closer, handlerVars, userVars, chatVars, toolVars>>
    \/ \E l \in DOMAIN launch : LaunchDone(l) /\ UNCHANGED <<actionVars, agentVars, browserVars, closer, handlerVars, userVars, chatVars, toolVars>>
    \/ \E l \in DOMAIN launch : LaunchFails(l) /\ UNCHANGED <<actionVars, agentVars, browserVars, closer, handlerVars, userVars, chatVars, toolVars>>
    \/ \E b \in DOMAIN launch : ConnectionLost(b) /\ UNCHANGED <<actionVars, agentVars, browserVars, closer, handlerVars, userVars, chatVars, toolVars>>
    \/ \E b \in DOMAIN launch : DisconnectedEvent(b) /\ UNCHANGED <<actionVars, agentVars, browserVars, closer, handlerVars, userVars, chatVars, toolVars>>
    \/ \E g \in Getters : NewContextDone(g) /\ UNCHANGED <<actionVars, agentVars, browserVars, closer, handlerVars, userVars, chatVars, toolVars>>
    \/ \E g \in Getters : GetterReturns(g) /\ UNCHANGED <<actionVars, agentVars, browserVars, closer, handlerVars, userVars, chatVars, toolVars>>

SpecPoolLate == InitPool /\ [][NextPoolLate]_vars

\* the pool at shutdown: close() runs when no getBrowser or getContext is in
\* flight, and none begins while it runs
InitPoolClose ==
    /\ RestAction /\ RestAgent /\ RestBrowser
    /\ browser = Null
    /\ initPromise = Null
    /\ launch = <<>>
    /\ contexts = {}
    /\ getter = [g \in {"g1"} |-> IdleGetter]
    /\ closer = IdleCloser
    /\ RestHandler /\ RestUsers /\ RestChats /\ RestTools

Quiet == \A g \in Getters : getter[g].pc = "idle"

NextPoolClose ==
    \/ \E g \in Getters : closer.pc = "idle" /\ GetBrowser(g) /\ UNCHANGED <<actionVars, agentVars, browserVars, closer, handlerVars, userVars, chatVars, toolVars>>
    \/ \E g \in Getters : closer.pc = "idle" /\ GetContext(g) /\ UNCHANGED <<actionVars, agentVars, browserVars, closer, handlerVars, userVars, chatVars, toolVars>>
    \/ \E l \in DOMAIN launch : LaunchDone(l) /\ UNCHANGED <<actionVars, agentVars, browserVars, closer, handlerVars, userVars, chatVars, toolVars>>
    \/ \E l \in DOMAIN launch : LaunchFails(l) /\ UNCHANGED <<actionVars, agentVars, browserVars, closer, handlerVars, userVars, chatVars, toolVars>>
    \/ \E b \in DOMAIN launch : Disconnected(b) /\ UNCHANGED <<actionVars, agentVars, browserVars, closer, handlerVars, userVars, chatVars, toolVars>>
    \/ \E g \in Getters : NewContextDone(g) /\ UNCHANGED <<actionVars, agentVars, browserVars, closer, handlerVars, userVars, chatVars, toolVars>>
    \/ \E g \in Getters : GetterReturns(g) /\ UNCHANGED <<actionVars, agentVars, browserVars, closer, handlerVars, userVars, chatVars, toolVars>>
    \/ Quiet /\ Close /\ UNCHANGED <<actionVars, agentVars, browserVars, handlerVars, userVars, chatVars, toolVars>>
    \/ SaveContextStateDone /\ UNCHANGED <<actionVars, agentVars, browserVars, handlerVars, userVars, chatVars, toolVars>>
    \/ CloseContextDone /\ UNCHANGED <<actionVars, agentVars, browserVars, handlerVars, userVars, chatVars, toolVars>>
    \/ BrowserCloseDone /\ UNCHANGED <<actionVars, agentVars, browserVars, handlerVars, userVars, chatVars, toolVars>>
    \/ CloserReturns /\ UNCHANGED <<actionVars, agentVars, browserVars, handlerVars, userVars, chatVars, toolVars>>

SpecPoolClose == InitPoolClose /\ [][NextPoolClose]_vars

----------------------------------------------------------------------------
(* Properties of BrowserPool.                                              *)

\* g awaits the promise of a launch
Awaits(g) == getter[g].pc = "awaitInit"

\* C3: of the getBrowser calls made while no browser is connected and before
\* the launch completes, the first starts one launch and the others start
\* none: at most one launch is in flight, and every caller awaits it; when it
\* completes, every one of them receives the browser it made.
C3_OneLaunchShared ==
    /\ [](/\ Cardinality(Launching) <= 1
          /\ \A g \in Getters : Awaits(g) => Launching = {getter[g].promise})
    /\ [][\A g \in Getters :
            /\ getter[g].pc = "idle" /\ Awaits(g)' =>
                  IF Launching = {}
                  THEN Len(launch') = Len(launch) + 1
                  ELSE launch' = launch /\ getter'[g].promise \in Launching
            /\ Awaits(g) /\ ~Awaits(g)' /\ launch'[getter[g].promise].state = "connected" =>
                  /\ getter'[g].result = getter[g].promise
                  /\ Connected(getter[g].promise)'
                  /\ getter[g].op = "getBrowser" => getter'[g].pc = "returned"
          ]_vars

\* three getBrowser calls of one cold start have returned the browser of the
\* only launch there has been
C3_Witness ==
    /\ Len(launch) = 1
    /\ \A g \in Getters :
        /\ getter[g].op = "getBrowser"
        /\ getter[g].pc = "returned"
        /\ getter[g].promise = 1
        /\ getter[g].result = 1

\* C26: close() has persisted every registered context before it closes a
\* context or the browser, and however it ends, by returning or by throwing
\* because a context could not be saved or closed (before browser.close was
\* reached), no context is registered any more and the pool holds no browser.
C26_CloseReleasesEverything ==
    /\ closer.pc \in {"closeContext", "closeBrowser"}
        => Keys(contexts) \subseteq closer.saved
    /\ \/ closer.pc = "returned"
       \/ closer.pc = "thrown" /\ closer.browser = Null
        => contexts = {} /\ browser = Null

\* the invocation g of getContext has returned a context of a browser that
\* is still connected
GotContext(g) ==
    /\ getter[g].pc = "returned"
    /\ getter[g].op = "getContext"
    /\ Connected(getter[g].result.browser)

\* C36: the getContext(name) invocations that have returned a context of the
\* connected browser have all returned the same one, and it is the one
\* registered under the name.
C36_OneContextPerName ==
    \A g, h \in Getters :
        (GotContext(g) /\ GotContext(h) /\ getter[g].name = getter[h].name)
            => /\ getter[g].result = getter[h].result
               /\ MapGet(contexts, getter[g].name) = getter[g].result

\* C37: the 'disconnected' event of a browser that the pool no longer holds
\* leaves the pool's browser and contexts as they are, and every connected
\* browser that the pool launched is the one it holds.
C37_LateEventHarmless ==
    /\ [][\A b \in DOMAIN launch :
            (launch[b].state = "lost" /\ launch'[b].state = "disconnected"
                /\ browser # b)
                => (browser' = browser /\ contexts' = contexts)]_vars
    /\ [](\A l \in DOMAIN launch : launch[l].state = "connected" => browser = l)

\* the launch l fails in this step
Fails(l) == launch[l].state = "launching" /\ launch'[l].state = "failed"

\* C33: when a launch fails, every invocation that awaits it throws, the pool
\* holds no browser and no promise of a launch afterwards, and no invocation
\* ever waits for or receives a launch that has failed: a getBrowser that
\* comes later starts a launch of its own.
C33_FailedLaunchPropagates ==
    [][/\ \A l \in DOMAIN launch :
            Fails(l)
                => /\ \A g \in Getters :
                        (getter[g].pc = "awaitInit" /\ getter[g].promise = l)
                            => getter'[g].pc = "thrown"
                   /\ browser' = Null
                   /\ initPromise' = Null
       /\ \A g \in Getters :
            /\ getter'[g].pc = "awaitInit"
                => launch'[getter'[g].promise].state = "launching"
            /\ (getter[g].pc = "idle" /\ getter'[g].pc = "returned"
                    /\ getter'[g].op = "getBrowser")
                => launch'[getter'[g].result].state = "connected"
            /\ (getter[g].pc = "idle" /\ getter'[g].pc = "awaitInit"
                    /\ initPromise = Null)
                => /\ Len(launch') = Len(launch) + 1
                   /\ getter'[g].promise = Len(launch')]_vars

\* the first launch failed for the two invocations that shared it, and a
\* later getBrowser waits for the second launch
C33_Witness ==
    /\ Len(launch) = 2
    /\ launch[1].state = "failed"
    /\ launch[2].state = "launching"
    /\ getter["g1"].pc = "thrown"
    /\ getter["g2"].pc = "thrown"
    /\ getter["g3"].pc = "awaitInit"
    /\ getter["g3"].promise = 2
    /\ browser = Null

\* C27: a getContext whose newContext with the saved state rejects does not
\* throw but tries newContext without it; when that resolves, the context,
\* which carries no saved state, is registered under the name and returned;
\* getContext throws only when the launch or the attempt without saved state
\* failed; and a getContext that finds a context registered under the name
\* returns it at once, launching and creating nothing.
C27_SnapshotFailureFallsBack ==
    [][\A g \in Getters : getter'[g].op = "getContext" =>
        /\ getter[g].pc = "newContext" /\ getter'[g].pc # "newContext"
            => \/ /\ getter'[g].pc = "returned"
                  /\ getter'[g].result.stored
                  /\ MapGet(contexts', getter[g].name) = getter'[g].result
               \/ /\ getter'[g].pc = "newContextFresh"
                  /\ contexts' = contexts
        /\ getter[g].pc = "newContextFresh" /\ getter'[g].pc = "returned"
            => /\ ~getter'[g].result.stored
               /\ getter'[g].result.browser = getter[g].result
               /\ MapGet(contexts', getter[g].name) = getter'[g].result
        /\ getter[g].pc # "thrown" /\ getter'[g].pc = "thrown"
            => getter[g].pc \in {"awaitInit", "newContextFresh"}
        /\ getter[g].pc = "idle" /\ getter'[g].pc # "idle"
                /\ MapHas(contexts, getter'[g].name)
            => /\ getter'[g].pc = "returned"
               /\ getter'[g].result = MapGet(contexts, getter'[g].name)
               /\ UNCHANGED <<contexts, launch, initPromise, browser>>
       ]_vars

\* one getContext fell back to a context without saved state and returned it,
\* and a later one returned that same context without a launch of its own
C27_Witness ==
    \E g, h \in Getters :
        /\ g # h
        /\ getter[g].op = "getContext" /\ getter[g].pc = "returned"
        /\ getter[g].result = Context(1, g, FALSE)
        /\ MapGet(contexts, getter[g].name) = getter[g].result
        /\ getter[h].op = "getContext" /\ getter[h].pc = "returned"
        /\ getter[h].name = getter[g].name
        /\ getter[h].result = getter[g].result
        /\ getter[h].promise = Null

----------------------------------------------------------------------------
(* actions/wegmans/browser.ts: WegmansBrowser.  A page is named by the     *)
(* order in which context.newPage made it.  Every await is a step.  The    *)
(* pool, the site and the operation are the environment: getContext,       *)
(* newPage, saveContextState and the operation may resolve or reject, the  *)
(* login probe and the login may succeed or fail, and a page may be closed *)
(* from outside (its browser went away).  page.close() resolves.           *)

MaxPages == 2

Callers == DOMAIN caller

IdleCaller(last) ==
    [pc |-> "idle", page |-> Null, authPage |-> Null, closing |-> Null,
     caught |-> "", opThrew |-> FALSE, thrown |-> "", last |-> last]

NewPage == [closed |-> FALSE, auth |-> "none", failed |-> FALSE]

\* this.page && !this.page.isClosed()
Usable(p) == p # Null /\ ~pages[p].closed

\* auth.ts: the login is attempted only if the probe says not logged in
ensureAuthenticated(loggedIn, loginOk) ==
    IF loggedIn THEN TRUE ELSE loginOk

\* getPage or withPage rejects with the error
Throw(me, error) ==
    [me EXCEPT !.pc = "thrown", !.thrown = error]

\* operation(page) is called
Operate(me, p) == [me EXCEPT !.pc = "operation", !.page = p]

\* withPage up to its first await that waits: getPage returns the page it
\* holds if it is open, and the operation starts on it; else it asks the pool
\* for the context
WithPage(c) ==
    /\ caller[c].pc = "idle"
    /\ caller' = [caller EXCEPT ![c] =
        IF Usable(page)
        THEN Operate(caller[c], page)
        ELSE [caller[c] EXCEPT !.pc = "getContext"]]
    /\ UNCHANGED <<page, pages>>

GetContextDone(c) ==
    /\ caller[c].pc = "getContext"
    /\ \E ok \in BOOLEAN :
        caller' = [caller EXCEPT ![c] =
            IF ok THEN [caller[c] EXCEPT !.pc = "newPage"]
            ELSE Throw(caller[c], "context_error")]
    /\ UNCHANGED <<page, pages>>

\* this.page = await context.newPage(), and ensureAuthenticated is called
\* with it
NewPageDone(c) ==
    /\ caller[c].pc = "newPage"
    /\ \E ok \in BOOLEAN :
        IF ok
        THEN /\ Len(pages) < MaxPages
             /\ pages' = Append(pages, NewPage)
             /\ page' = Len(pages) + 1
             /\ caller' = [caller EXCEPT ![c] =
                    [caller[c] EXCEPT !.pc = "ensureAuthenticated",
                                      !.authPage = Len(pages) + 1]]
        ELSE /\ caller' = [caller EXCEPT ![c] = Throw(caller[c], "page_error")]
             /\ UNCHANGED <<page, pages>>

\* ensureAuthenticated settles; if it says false getPage throws, and the page
\* stays in this.page
EnsureAuthenticatedDone(c) ==
    /\ caller[c].pc = "ensureAuthenticated"
    /\ \E loggedIn \in BOOLEAN, loginOk \in BOOLEAN :
        LET authenticated == ensureAuthenticated(loggedIn, loginOk)
        IN  /\ pages' = [pages EXCEPT ![caller[c].authPage].auth =
                    IF authenticated THEN "ok" ELSE "failed"]
            /\ caller' = [caller EXCEPT ![c] =
                    IF authenticated
                    THEN [caller[c] EXCEPT !.pc = "saveAuth"]
                    ELSE Throw(caller[c], "auth_error")]
    /\ UNCHANGED page

\* saveContextState settles in getPage, which returns this.page as it is now;
\* the operation starts on it
SaveAuthDone(c) ==
    /\ caller[c].pc = "saveAuth"
    /\ \E ok \in BOOLEAN :
        caller' = [caller EXCEPT ![c] =
            IF ok THEN Operate(caller[c], page)
            ELSE Throw(caller[c], "save_error")]
    /\ UNCHANGED <<page, pages>>

\* the catch of withPage up to the await in closePage
Catch(me, error) ==
    IF Usable(page)
    THEN [me EXCEPT !.pc = "closing", !.caught = error, !.closing = page]
    ELSE Throw([me EXCEPT !.caught = error], error)

OperationDone(c) ==
    /\ caller[c].pc = "operation"
    /\ \E ok \in BOOLEAN :
        caller' = [caller EXCEPT ![c] =
            IF ok THEN [caller[c] EXCEPT !.pc = "saveState"]
            ELSE Catch([caller[c] EXCEPT !.opThrew = TRUE], "operation_error")]
    /\ UNCHANGED <<page, pages>>

SaveStateDone(c) ==
    /\ caller[c].pc = "saveState"
    /\ \E ok \in BOOLEAN :
        caller' = [caller EXCEPT ![c] =
            IF ok THEN [caller[c] EXCEPT !.pc = "returned"]
            ELSE Catch(caller[c], "save_error")]
    /\ UNCHANGED <<page, pages>>

\* the mutation of closePage: the page is left open and kept
closePageKeeps(ps, p) == [page |-> p, pages |-> ps]

\* closePage after its await: the page is closed, and this.page = null
closePage(ps, p) ==
    [page |-> Null, pages |-> [ps EXCEPT ![p].closed = TRUE]]

ClosePageDone(c) ==
    /\ caller[c].pc = "closing"
    /\ page' = closePage(pages, caller[c].closing).page
    /\ pages' = closePage(pages, caller[c].closing).pages
    /\ caller' = [caller EXCEPT ![c] = Throw(caller[c], caller[c].caught)]

\* withPage has settled, and its caller goes on; what is kept is whether its
\* operation threw, and on which page
CallerReturns(c) ==
    /\ caller[c].pc \in {"returned", "thrown"}
    /\ caller' = [caller EXCEPT ![c] =
        IdleCaller(caller[c].opThrew)]
    /\ pages' =
        IF caller[c].opThrew /\ caller[c].page # Null
        THEN [pages EXCEPT ![caller[c].page].failed = TRUE]
        ELSE pages
    /\ UNCHANGED page

\* a page is closed from outside
PageCloses(p) ==
    /\ ~pages[p].closed
    /\ pages' = [pages EXCEPT ![p].closed = TRUE]
    /\ UNCHANGED <<page, caller>>

InitBrowserSeq ==
    /\ RestAction /\ RestAgent /\ RestPool
    /\ page = Null
    /\ pages = <<>>
    /\ caller = [c \in {"w1"} |-> IdleCaller(FALSE)]
    /\ RestHandler /\ RestUsers /\ RestChats /\ RestTools

InitBrowser ==
    /\ RestAction /\ RestAgent /\ RestPool
    /\ page = Null
    /\ pages = <<>>
    /\ caller = [c \in {"w1", "w2"} |-> IdleCaller(FALSE)]
    /\ RestHandler /\ RestUsers /\ RestChats /\ RestTools

NextBrowser ==
    \/ \E c \in Callers : WithPage(c) /\ UNCHANGED <<actionVars, agentVars, poolVars, handlerVars, userVars, chatVars, toolVars>>
    \/ \E c \in Callers : GetContextDone(c) /\ UNCHANGED <<actionVars, agentVars, poolVars, handlerVars, userVars, chatVars, toolVars>>
    \/ \E c \in Callers : NewPageDone(c) /\ UNCHANGED <<actionVars, agentVars, poolVars, handlerVars, userVars, chatVars, toolVars>>
    \/ \E c \in Callers : EnsureAuthenticatedDone(c) /\ UNCHANGED <<actionVars, agentVars, poolVars, handlerVars, userVars, chatVars, toolVars>>
    \/ \E c \in Callers : SaveAuthDone(c) /\ UNCHANGED <<actionVars, agentVars, poolVars, handlerVars, userVars, chatVars, toolVars>>
    \/ \E c \in Callers : OperationDone(c) /\ UNCHANGED <<actionVars, agentVars, poolVars, handlerVars, userVars, chatVars, toolVars>>
    \/ \E c \in Callers : SaveStateDone(c) /\ UNCHANGED <<actionVars, agentVars, poolVars, handlerVars, userVars, chatVars, toolVars>>
    \/ \E c \in Callers : ClosePageDone(c) /\ UNCHANGED <<actionVars, agentVars, poolVars, handlerVars, userVars, chatVars, toolVars>>
    \/ \E c \in Callers : CallerReturns(c) /\ UNCHANGED <<actionVars, agentVars, poolVars, handlerVars, userVars, chatVars, toolVars>>
    \/ \E p \in DOMAIN pages : PageCloses(p) /\ UNCHANGED <<actionVars, agentVars, poolVars, handlerVars, userVars, chatVars, toolVars>>

\* withPage calls made one after the other
SpecBrowserSeq == InitBrowserSeq /\ [][NextBrowser]_vars

\* withPage calls that overlap
SpecBrowser == InitBrowser /\ [][NextBrowser]_vars

----------------------------------------------------------------------------
(* Properties of WegmansBrowser.                                           *)

OperationStarts(c) == caller[c].pc # "operation" /\ caller'[c].pc = "operation"

WithPageThrows(c) == caller[c].pc # "thrown" /\ caller'[c].pc = "thrown"

\* C4 (as claimed): two withPage invocations never have their operations in
\* progress on the shared page at the same time; the second operation starts
\* only after the first has returned or thrown.
C4_OperationsSerialized ==
    \A c1 \in Callers, c2 \in Callers :
        /\ c1 # c2
        /\ caller[c1].pc = "operation"
        /\ caller[c2].pc = "operation"
        => caller[c1].page # caller[c2].page

\* C5 (as claimed): an operation passed to withPage runs only on a page whose
\* authentication (the probe, or the login after a failed probe) succeeded
\* when the page was acquired; no operation runs on a page whose
\* authentication failed.
C5_OperationsOnAuthenticatedPage ==
    \A c \in Callers :
        caller[c].pc = "operation" =>
            /\ caller[c].page # Null
            /\ pages[caller[c].page].auth = "ok"

C28_FailedAuthenticationRetried ==
    [][\A c \in Callers :
        /\ caller[c].pc = "ensureAuthenticated"
                /\ pages'[caller[c].authPage].auth = "failed"
            => /\ caller'[c].pc = "thrown"
               /\ caller'[c].thrown = "auth_error"
        /\ caller[c].pc = "idle" /\ caller'[c].pc # "idle"
                /\ page # Null /\ pages[page].auth = "failed"
            => caller'[c].pc = "getContext"
      ]_vars

----------------------------------------------------------------------------
(* whatsapp/messageHandler.ts: the 'message' callback of                   *)
(* setupMessageHandler, with the agent it calls.  The WhatsApp client is   *)
(* the environment: message.reply delivers the text or rejects without     *)
(* delivering it.  A body is a text with or without white space around it, *)
(* or is missing.                                                          *)

Owner == "owner@c.us"

Senders == {Owner, "other@c.us", "family@g.us"}

Texts == {"", "hi", "/reset", "/RESET"}

Missing == [text |-> "", padded |-> FALSE, missing |-> TRUE]

Bodies ==
    {[text |-> x, padded |-> p, missing |-> FALSE] : x \in Texts, p \in BOOLEAN}
        \cup {Missing}

\* String.prototype.trim
Trim(body) == body.text

\* !message.body || !message.body.trim()
Empty(body) ==
    \/ body.missing
    \/ body.text = "" /\ ~body.padded
    \/ Trim(body) = ""

\* the mutation of IsOwner: anyone is served
IsOwnerAnyone(from) == TRUE

\* message.from === config.ownerPhoneNumber
IsOwner(from) == from = Owner

\* message.from.includes('@g.us')
IsGroup(from) == from = "family@g.us"

\* the callback up to its first await
OnMessage ==
    /\ handler.pc = "idle"
    /\ \E from \in Senders, body \in Bodies :
        LET me == [IdleHandler EXCEPT !.from = from, !.body = body]
        IN  IF ~IsOwner(from) \/ IsGroup(from) \/ Empty(body)
            THEN /\ handler' = [me EXCEPT !.pc = "ignored"]
                 /\ UNCHANGED agentVars
            ELSE IF toLowerCase(Trim(body)) = "/reset"
            THEN /\ handler' = [me EXCEPT !.pc = "replyCleared", !.reset = TRUE]
                 /\ ClearContext(from)
            ELSE /\ handler' = [me EXCEPT !.pc = "handleMessage", !.handled = TRUE]
                 /\ HandleMessage(from, Trim(body))

\* agent.handleMessage returns
AgentDone ==
    /\ handler.pc = "handleMessage"
    /\ handler' = [handler EXCEPT !.pc = "reply", !.response = agent.reply]
    /\ AgentReturn

\* message.reply settles in the try block
ReplyDone ==
    /\ handler.pc \in {"reply", "replyCleared"}
    /\ \E ok \in BOOLEAN :
        handler' =
            IF ok
            THEN [handler EXCEPT !.pc = "done",
                    !.delivered = Append(@, IF handler.pc = "reply"
                                            THEN handler.response ELSE "cleared")]
            ELSE [handler EXCEPT !.pc = "replyError"]

\* message.reply settles in the catch block
ReplyErrorDone ==
    /\ handler.pc = "replyError"
    /\ \E ok \in BOOLEAN :
        handler' =
            IF ok
            THEN [handler EXCEPT !.pc = "done", !.delivered = Append(@, "sorry")]
            ELSE [handler EXCEPT !.pc = "done"]

HandlerReturns ==
    /\ handler.pc \in {"ignored", "done"}
    /\ handler' = IdleHandler

InitHandler ==
    /\ RestAction /\ RestAgent /\ RestPool /\ RestBrowser /\ RestUsers /\ RestChats /\ RestTools
    /\ handler = IdleHandler

NextHandler ==
    \/ OnMessage /\ UNCHANGED <<actionVars, poolVars, browserVars, userVars, chatVars, toolVars>>
    \/ ChatDone /\ UNCHANGED <<actionVars, poolVars, browserVars, handlerVars, userVars, chatVars, toolVars>>
    \/ ChatThrows /\ UNCHANGED <<actionVars, poolVars, browserVars, handlerVars, userVars, chatVars, toolVars>>
    \/ FunctionDone /\ UNCHANGED <<actionVars, poolVars, browserVars, handlerVars, userVars, chatVars, toolVars>>
    \/ ContinueDone /\ UNCHANGED <<actionVars, poolVars, browserVars, handlerVars, userVars, chatVars, toolVars>>
    \/ ContinueThrows /\ UNCHANGED <<actionVars, poolVars, browserVars, handlerVars, userVars, chatVars, toolVars>>
    \/ AgentDone /\ UNCHANGED <<actionVars, poolVars, browserVars, userVars, chatVars, toolVars>>
    \/ ReplyDone /\ UNCHANGED <<actionVars, agentVars, poolVars, browserVars, userVars, chatVars, toolVars>>
    \/ ReplyErrorDone /\ UNCHANGED <<actionVars, agentVars, poolVars, browserVars, userVars, chatVars, toolVars>>
    \/ HandlerReturns /\ UNCHANGED <<actionVars, agentVars, poolVars, browserVars, userVars, chatVars, toolVars>>

SpecHandler == InitHandler /\ [][NextHandler]_vars

----------------------------------------------------------------------------
(* Properties of the message handler.                                      *)

\* C29: the agent is given a message only if its sender is the owner and its
\* trimmed body is not empty; a message of another sender leads to no agent
\* call, no reset and no reply; and for one message at most one reply is
\* delivered, which for a message given to the agent is the agent's reply or
\* the generic error reply.
C29_OnlyOwnerServedOneReply ==
    /\ handler.handled
        => /\ handler.from = Owner
           /\ ~handler.body.missing
           /\ Trim(handler.body) # ""
           /\ handler.delivered \in {<<>>, <<handler.response>>, <<"sorry">>}
           /\ agent.pc # "idle" => agent.userId = Owner
    /\ handler.from # Owner
        => /\ ~handler.handled
           /\ ~handler.reset
           /\ handler.delivered = <<>>
           /\ handler.pc \in {"idle", "ignored"}
    /\ ~handler.handled => agent.pc = "idle"
    /\ Len(handler.delivered) <= 1

\* the reply of the agent could not be sent, and the error reply was
\* delivered in its place
C29_Witness ==
    /\ handler.pc = "done"
    /\ handler.from = Owner
    /\ handler.handled
    /\ handler.body = [text |-> "hi", padded |-> TRUE, missing |-> FALSE]
    /\ handler.response = "text"
    /\ handler.delivered = <<"sorry">>

----------------------------------------------------------------------------
(* The commands of two users.  handleMessage(userId, ...) passes the name  *)
(* and the arguments of a function call to executeFunction, which builds   *)
(* the ActionContext without the user; the command then runs under the one *)
(* key 'default'.  A command is named here by the user whose message made  *)
(* the agent run it, and the commands of the two users run one after the   *)
(* other.                                                                  *)

InitUsers ==
    /\ pendingSelections = {}
    /\ groceryItems = <<>>
    /\ now = 0
    /\ task = [u \in Users |-> IdleTask]
    /\ RestAgent /\ RestPool /\ RestBrowser /\ RestHandler /\ RestUsers /\ RestChats /\ RestTools

\* no command of another user is running
Alone(u) == \A o \in Tasks \ {u} : task[o].pc = "idle"

\* the command of u returns the menu of an entry it stored in this step
Stores(u) ==
    /\ task[u].pc # "done"
    /\ task'[u].pc = "done"
    /\ task'[u].result.msg \in {"menu_past", "menu_found"}

\* a step of a command of u: the entry under 'default', if one is left, is
\* the one u stored in this step or the one that was there
Track(u) ==
    /\ Alone(u)
    /\ storedFor' = IF ~MapHas(pendingSelections', SessionKey) THEN ""
                    ELSE IF Stores(u) THEN u
                    ELSE storedFor

NextUsers ==
    \/ \E u \in Tasks : ExecuteAdd(u) /\ Track(u) /\ UNCHANGED <<agentVars, poolVars, browserVars, handlerVars, chatVars, toolVars>>
    \/ \E u \in Tasks : AddSearchMyItemsDone(u) /\ Track(u) /\ UNCHANGED <<agentVars, poolVars, browserVars, handlerVars, chatVars, toolVars>>
    \/ \E u \in Tasks : AddMyItemDone(u) /\ Track(u) /\ UNCHANGED <<agentVars, poolVars, browserVars, handlerVars, chatVars, toolVars>>
    \/ \E u \in Tasks : AddSearchProductsDone(u) /\ Track(u) /\ UNCHANGED <<agentVars, poolVars, browserVars, handlerVars, chatVars, toolVars>>
    \/ \E u \in Tasks : AddSearchResultDone(u) /\ Track(u) /\ UNCHANGED <<agentVars, poolVars, browserVars, handlerVars, chatVars, toolVars>>
    \/ \E u \in Tasks : ExecuteSearch(u) /\ Track(u) /\ UNCHANGED <<agentVars, poolVars, browserVars, handlerVars, chatVars, toolVars>>
    \/ \E u \in Tasks : SearchProductsDone(u) /\ Track(u) /\ UNCHANGED <<agentVars, poolVars, browserVars, handlerVars, chatVars, toolVars>>
    \/ \E u \in Tasks : SearchAddResultDone(u) /\ Track(u) /\ UNCHANGED <<agentVars, poolVars, browserVars, handlerVars, chatVars, toolVars>>
    \/ \E u \in Tasks : ExecutePick(u) /\ Track(u) /\ UNCHANGED <<agentVars, poolVars, browserVars, handlerVars, chatVars, toolVars>>
    \/ \E u \in Tasks : PickAddDone(u) /\ Track(u) /\ UNCHANGED <<agentVars, poolVars, browserVars, handlerVars, chatVars, toolVars>>
    \/ \E u \in Tasks : Return(u) /\ Track(u) /\ UNCHANGED <<agentVars, poolVars, browserVars, handlerVars, chatVars, toolVars>>

SpecUsers == InitUsers /\ [][NextUsers]_vars

\* the command of u begins as a pick that finds an entry
Resolves(u) ==
    /\ task[u].pc = "idle"
    /\ task'[u].pc # "idle"
    /\ task'[u].kind = "pick"
    /\ task'[u].pending # Undefined

\* C21: an add or search of one user never replaces the entry stored for
\* another user, and a pick of one user never resolves against the entry
\* stored for another user.
C21_UsersDisjoint ==
    [][\A u \in Tasks :
        /\ Stores(u) => storedFor \in {"", u}
        /\ Resolves(u) => storedFor = u]_vars

----------------------------------------------------------------------------
(* Picks that may overlap.  Two 'message' callbacks run at the same time    *)
(* when a second message arrives while the first awaits, so two picks can   *)
(* be in handleSelection together.  An add has left one selection with two  *)
(* candidates under the key.                                               *)

TwoCandidates ==
    <<[name |-> "milk", index |-> 0], [name |-> "2% milk", index |-> 1]>>

InitPicks ==
    /\ pendingSelections =
            {[key |-> SessionKey,
              val |-> Selection("milk", TwoCandidates, "myItems", 0)]}
    /\ groceryItems = <<>>
    /\ now = 0
    /\ task = [t \in {"t1", "t2"} |-> IdleTask]
    /\ RestAgent /\ RestPool /\ RestBrowser /\ RestHandler /\ RestUsers /\ RestChats /\ RestTools

NextPicks ==
    \/ \E t \in Tasks : ExecutePickOverlapping(t) /\ UNCHANGED <<agentVars, poolVars, browserVars, handlerVars, userVars, chatVars, toolVars>>
    \/ \E t \in Tasks : PickAddDone(t) /\ UNCHANGED <<agentVars, poolVars, browserVars, handlerVars, userVars, chatVars, toolVars>>
    \/ \E t \in Tasks : Return(t) /\ UNCHANGED <<agentVars, poolVars, browserVars, handlerVars, userVars, chatVars, toolVars>>

SpecPicks == InitPicks /\ [][NextPicks]_vars

\* the remote add of the pick t ran
RemoteAddRan(t) ==
    /\ task[t].kind = "pick"
    /\ task[t].calls # <<>>
    /\ OperationRan(LastCall(task[t]).out)

\* C35 (as claimed): of the picks made against the stored selection, those
\* that overlap included, at most one has run a remote add.
C35_ConsumedAtMostOnce ==
    Cardinality({t \in Tasks : RemoteAddRan(t)}) <= 1

\* C35 (amended): when the page call of a pick has come back, whatever its
\* outcome, the selection is gone; a pick that begins when it is gone fails
\* with 'no pending selection' and makes no page call; so two picks have both
\* run a remote add only if each began before the page call of the other had
\* come back.
C35_ConsumedOncePickReturns ==
    [][\A t \in Tasks :
        /\ (task[t].pc = "pick_add" /\ task'[t].pc = "done")
            => ~MapHas(pendingSelections', SessionKey)
        /\ (task[t].pc = "idle" /\ task'[t].pc # "idle"
                /\ ~MapHas(pendingSelections, SessionKey))
            => /\ task'[t].pc = "done"
               /\ task'[t].result.msg = "no_pending"
               /\ task'[t].calls = <<>>
        /\ (task[t].pc = "idle" /\ task'[t].pc = "pick_add")
            => \A u \in Tasks \ {t} : ~RemoteAddRan(u)]_vars

\* the first pick has added its candidate and consumed the selection, and the
\* pick that came after it found nothing
C35_Witness ==
    /\ task["t1"].pc = "done"
    /\ RemoteAddRan("t1")
    /\ task["t1"].result.success
    /\ task["t2"].pc = "done"
    /\ task["t2"].kind = "pick"
    /\ task["t2"].result.msg = "no_pending"
    /\ task["t2"].n = 1
    /\ pendingSelections = {}

----------------------------------------------------------------------------
(* llm/gemini.ts: GeminiService.chat invocations that may overlap.  An     *)
(* Array is an object: two invocations that hold the same Array see each   *)
(* other's push, two that hold different ones do not.  Here arrays is the  *)
(* sequence of the Array objects, an Array is named by its position in it, *)
(* and the values of conversationHistory are such names.                   *)

Chatters == {"c1", "c2"}

\* the message of a chat tells the chats apart
MessageOf(c) == IF c = "c1" THEN "show list" ELSE "add bread"

IdleChat == [pc |-> "idle", userId |-> "", message |-> "", history |-> Null]

\* a response with a text and no function call: handleMessage returns it
TextResponses == {r \in Responses : r.text /\ r.functionCalls = <<>>}

\* chat, lines 150-155: the stored Array; a new empty one if none is stored;
\* a new one, the copy that slice makes, if the stored one exceeds 40
ChatBegin(c, userId) ==
    /\ chats[c].pc = "idle"
    /\ LET found == MapHas(conversationHistory, userId)
           held == IF found THEN arrays[MapGet(conversationHistory, userId)]
                   ELSE <<>>
           fresh == ~found \/ Len(held) > HISTORY_CAP
       IN  /\ arrays' = IF fresh THEN Append(arrays, SliceLast(held)) ELSE arrays
           /\ chats' = [chats EXCEPT ![c] =
                [pc |-> "sendMessage", userId |-> userId,
                 message |-> MessageOf(c),
                 history |-> IF fresh THEN Len(arrays) + 1
                             ELSE MapGet(conversationHistory, userId)]]
    /\ UNCHANGED conversationHistory

\* chat, lines 166-196: sendMessage has resolved; the message and the
\* response are pushed onto the Array the chat holds, which is then stored
ChatResolved(c) ==
    /\ chats[c].pc = "sendMessage"
    /\ \E response \in TextResponses :
        arrays' = [arrays EXCEPT ![chats[c].history] =
                        chat(@, chats[c].message, response)]
    /\ conversationHistory' =
            MapSet(conversationHistory, chats[c].userId, chats[c].history)
    /\ chats' = [chats EXCEPT ![c].pc = "returned"]

\* chat, lines 208-213: sendMessage has rejected; nothing is pushed or stored
ChatRejected(c) ==
    /\ chats[c].pc = "sendMessage"
    /\ chats' = [chats EXCEPT ![c].pc = "thrown"]
    /\ UNCHANGED <<conversationHistory, arrays>>

\* the owner has no history, that of one exchange, or one of 21 exchanges
InitOverlap ==
    /\ RestAction /\ RestPool /\ RestBrowser /\ RestHandler /\ RestUsers
    /\ RestTools
    /\ agent = IdleAgent
    /\ called = FALSE
    /\ chats = [c \in Chatters |-> IdleChat]
    /\ \/ arrays = <<>> /\ conversationHistory = {}
       \/ \E h \in {<<>>, Turns(1), Turns(21)} :
            /\ arrays = <<h>>
            /\ conversationHistory = {[key |-> "owner@c.us", val |-> 1]}

NextOverlap ==
    \/ \E c \in Chatters, userId \in Users : ChatBegin(c, userId) /\ UNCHANGED <<actionVars, agent, called, poolVars, browserVars, handlerVars, userVars, toolVars>>
    \/ \E c \in Chatters : ChatResolved(c) /\ UNCHANGED <<actionVars, agent, called, poolVars, browserVars, handlerVars, userVars, toolVars>>
    \/ \E c \in Chatters : ChatRejected(c) /\ UNCHANGED <<actionVars, agent, called, poolVars, browserVars, handlerVars, userVars, toolVars>>

SpecOverlap == InitOverlap /\ [][NextOverlap]_vars

\* the Array stored for the user
StoredArray(userId) ==
    IF MapHas(conversationHistory, userId)
    THEN arrays[MapGet(conversationHistory, userId)]
    ELSE <<>>

\* the history holds the message followed by a response of the model
Recorded(history, message) ==
    \E i \in 1..(Len(history) - 1) :
        /\ history[i] = UserEntry(message)
        /\ history[i + 1].role = "model"

\* C38: the message of every chat that has returned is, followed by the
\* model's response, in the history stored for its user, whether or not
\* another chat of that user overlapped it.
C38_OverlapLosesNothing ==
    \A c \in Chatters :
        chats[c].pc = "returned"
            => Recorded(StoredArray(chats[c].userId), chats[c].message)

----------------------------------------------------------------------------
(* llm/agent.ts: HansAgent.executeFunction.  It writes the command as a    *)
(* text, matches the text against the pattern of the command, and hands    *)
(* both to WegmansAction.execute, which tests the text again to choose the *)
(* handler.  A text is the sequence of its characters; a word of letters   *)
(* counts as one character, since no pattern looks inside a word.          *)

MaxItems == 2

DigitChars == <<"0", "1", "2", "3", "4", "5", "6", "7", "8", "9">>

\* \s, \d and . (which matches no line terminator)
IsSpace(c) == c \in {" ", "\n"}

IsDigit(c) == \E d \in 1..10 : DigitChars[d] = c

IsDot(c) == c # "\n"

\* c is of the class \d or of the class .
InClass(c, class) == IF class = "\\d" THEN IsDigit(c) ELSE IsDot(c)

\* String(n) of a natural number
RECURSIVE Decimal(_)
Decimal(n) ==
    IF n < 10 THEN <<DigitChars[n + 1]>>
    ELSE Append(Decimal(n \div 10), DigitChars[(n % 10) + 1])

\* `${selection}` of an integer
FormatNumber(n) == IF n < 0 THEN <<"-">> \o Decimal(-n) ELSE Decimal(n)

\* parseInt(s, 10) of a string of digits
RECURSIVE parseInt(_)
parseInt(s) ==
    IF s = <<>> THEN 0
    ELSE 10 * parseInt(SubSeq(s, 1, Len(s) - 1))
         + (CHOOSE d \in 0..9 : DigitChars[d + 1] = s[Len(s)])

\* `add ${item}`, `search ${query}`, `remove ${item}`, `pick ${selection}`
Template(word, arg) == <<word, " ">> \o arg

\* String.prototype.match that found nothing returns null
NoMatch == [matched |-> FALSE, group |-> <<>>]

\* the numbers of characters that \s+ may take after the first word, so that
\* the rest is not empty and is all made of characters of the class
SpaceRuns(message, class) ==
    {k \in 1..(Len(message) - 2) :
        /\ \A j \in 2..(k + 1) : IsSpace(message[j])
        /\ \A j \in (k + 2)..Len(message) : InClass(message[j], class)}

\* message.match(/^word\s+(class+)$/i): \s+ is greedy, so of the ways to
\* match the first found gives \s+ the most
Match(message, words, class) ==
    LET ks == SpaceRuns(message, class)
    IN  IF Len(message) >= 1 /\ toLowerCase(message[1]) \in words /\ ks # {}
        THEN [matched |-> TRUE,
              group |-> SubSeq(message,
                               (CHOOSE k \in ks : \A l \in ks : l <= k) + 2,
                               Len(message))]
        ELSE NoMatch

\* /^word\s+/i.test(message)
TestPrefix(message, word) ==
    /\ Len(message) >= 2
    /\ toLowerCase(message[1]) = word
    /\ IsSpace(message[2])

\* /^(?:first)\s+last$/i.test(message)
TestTwoWords(message, first, last) ==
    /\ Len(message) >= 3
    /\ toLowerCase(message[1]) \in first
    /\ toLowerCase(message[Len(message)]) = last
    /\ \A j \in 2..(Len(message) - 1) : IsSpace(message[j])

\* the text of a captured group as the item that the handlers are given
ItemOf(group) == IF Len(group) = 1 THEN group[1] ELSE "phrase"

\* WegmansAction.execute, lines 59-94: the handler chosen for the message
\* and what it is given; reading match[1] of null is a TypeError
executeTests(message, match) ==
    LET given(op) ==
            IF match.matched
            THEN [op |-> op, item |-> ItemOf(match.group),
                  n |-> IF op = "pick" THEN parseInt(match.group) ELSE 0]
            ELSE [op |-> "TypeError", item |-> "", n |-> 0]
    IN  IF Match(message, {"pick", "select", "choose"}, "\\d").matched
        THEN given("pick")
        ELSE IF TestPrefix(message, "add") THEN given("add")
        ELSE IF TestPrefix(message, "search") THEN given("search")
        ELSE IF TestPrefix(message, "remove") THEN given("remove")
        ELSE IF message = <<"list">>
                \/ TestTwoWords(message, {"show", "shopping"}, "list")
        THEN [op |-> "list", item |-> "", n |-> 0]
        ELSE IF TestTwoWords(message, {"clear"}, "list")
        THEN [op |-> "clear", item |-> "", n |-> 0]
        ELSE [op |-> "unknown_command", item |-> "", n |-> 0]

OperationOf(name) ==
    CASE name = "add_to_grocery_list" -> "add"
      [] name = "search_grocery_item" -> "search"
      [] name = "remove_from_grocery_list" -> "remove"
      [] name = "show_grocery_list" -> "list"
      [] name = "clear_grocery_list" -> "clear"
      [] name = "select_item" -> "pick"
      [] OTHER -> "none"

FunctionNames ==
    {"add_to_grocery_list", "search_grocery_item", "remove_from_grocery_list",
     "show_grocery_list", "clear_grocery_list", "select_item", "frobnicate"}

\* what the model may pass as an item or a query
ArgTexts == {<<"milk">>, <<" ", "Milk">>, <<>>, <<"milk", "\n">>}

Selections == {-1, 1, 2, 10}

\* executeFunction, lines 94-95, 106-107, 115-116, 123-124, 131-132, 139-141:
\* actionContext.message of the call that f is about to make
ToolMessage(f) ==
    CASE f.name = "add_to_grocery_list" -> Template("add", f.items[f.i])
      [] f.name = "search_grocery_item" -> Template("search", f.items[1])
      [] f.name = "remove_from_grocery_list" -> Template("remove", f.items[1])
      [] f.name = "show_grocery_list" -> <<"list">>
      [] f.name = "clear_grocery_list" -> <<"clear", " ", "list">>
      [] f.name = "select_item" -> Template("pick", FormatNumber(f.selection))

\* actionContext.match of that call
ToolMatch(f, message) ==
    CASE f.name = "add_to_grocery_list" -> Match(message, {"add"}, ".")
      [] f.name = "search_grocery_item" -> Match(message, {"search"}, ".")
      [] f.name = "remove_from_grocery_list" -> Match(message, {"remove"}, ".")
      [] f.name = "show_grocery_list" ->
            [matched |-> message = <<"list">>, group |-> <<>>]
      [] f.name = "clear_grocery_list" ->
            [matched |-> TestTwoWords(message, {"clear"}, "list"), group |-> <<>>]
      [] f.name = "select_item" -> Match(message, {"pick"}, "\\d")

ToolValue(kind, name, msg, lines) ==
    [kind |-> kind, name |-> name, msg |-> msg, lines |-> lines]

\* lines 152-158: `Error executing ${call.name}: ...`
ToolError(f) ==
    [f EXCEPT !.pc = "returned", !.out = ToolValue("error", f.name, "", <<>>)]

\* this.wegmans.execute(actionContext), up to its first await: the i-th
\* call of execute that f makes is the task i
CallExecute(f) ==
    LET message == ToolMessage(f)
        d == executeTests(message, ToolMatch(f, message))
        t == f.i
        running == [f EXCEPT !.pc = "execute", !.ran = Append(@, d.op)]
    IN  CASE d.op = "TypeError" ->
                /\ fn' = ToolError(f)
                /\ pendingSelections' =
                        cleanupPendingSelections(pendingSelections, now)
                /\ UNCHANGED <<groceryItems, now, task>>
          [] d.op = "unknown_command" ->
                /\ fn' = [f EXCEPT !.pc = "execute"]
                /\ pendingSelections' =
                        cleanupPendingSelections(pendingSelections, now)
                /\ task' = [task EXCEPT ![t] =
                        Finish(Begin(t, "none", "", 0),
                               Result(FALSE, "unknown_command", "", 0, <<>>))]
                /\ UNCHANGED <<groceryItems, now>>
          [] d.op = "add" ->
                fn' = running /\ Execute(t, "add", d.item, 0, "add_searchMyItems")
          [] d.op = "search" ->
                fn' = running
                /\ Execute(t, "search", d.item, 0, "search_searchProducts")
          [] d.op = "remove" ->
                fn' = running /\ Execute(t, "remove", d.item, 0, "remove_removeItem")
          [] d.op = "list" -> fn' = running /\ ExecuteList(t)
          [] d.op = "clear" -> fn' = running /\ ExecuteClear(t)
          [] d.op = "pick" -> fn' = running /\ handleSelection(t, d.n)

\* executeFunction, lines 76-151, up to its first await
ToolCall(name, items, selection) ==
    /\ fn.pc = "idle"
    /\ LET f == [fn EXCEPT !.name = name, !.items = items,
                           !.selection = selection, !.i = 1,
                           !.pending = pendingSelections,
                           !.mirror = groceryItems]
       IN  IF OperationOf(name) = "none"
           THEN /\ fn' = [f EXCEPT !.pc = "returned",
                            !.out = ToolValue("unknown_function", name, "", <<>>)]
                /\ UNCHANGED actionVars
           ELSE IF name = "add_to_grocery_list" /\ items = <<>>
           THEN /\ fn' = [f EXCEPT !.pc = "returned",
                            !.out = ToolValue("lines", "", "", <<>>)]
                /\ UNCHANGED actionVars
           ELSE CallExecute(f)

\* executeFunction after `await this.wegmans.execute(actionContext)`
ToolResume ==
    /\ fn.pc = "execute"
    /\ task[fn.i].pc = "done"
    /\ LET result == task[fn.i].result
           pushed == [fn EXCEPT !.results =
                        Append(@, [item |-> fn.items[fn.i], message |-> result.msg])]
       IN  IF result.threw
           THEN fn' = ToolError(fn) /\ UNCHANGED actionVars
           ELSE IF fn.name # "add_to_grocery_list"
           THEN /\ fn' = [fn EXCEPT !.pc = "returned",
                            !.out = ToolValue("message", "", result.msg, <<>>)]
                /\ UNCHANGED actionVars
           ELSE IF fn.i < Len(fn.items)
           THEN CallExecute([pushed EXCEPT !.i = @ + 1])
           ELSE /\ fn' = [pushed EXCEPT !.pc = "returned",
                            !.out = ToolValue("lines", "", "", pushed.results)]
                /\ UNCHANGED actionVars

\* nothing or the menu of an earlier add is pending
InitTools ==
    /\ pendingSelections \in
            {{}, {[key |-> SessionKey,
                   val |-> Selection("milk", TwoCandidates, "myItems", 0)]}}
    /\ groceryItems = <<>>
    /\ now = 0
    /\ task = [i \in 1..MaxItems |-> IdleTask]
    /\ fn = IdleFn
    /\ RestAgent /\ RestPool /\ RestBrowser /\ RestHandler /\ RestUsers /\ RestChats

NextTools ==
    \/ \E name \in FunctionNames, items \in SeqUpTo(ArgTexts, MaxItems), selection \in Selections : (name # "add_to_grocery_list" => Len(items) = 1) /\ ToolCall(name, items, selection) /\ UNCHANGED <<agentVars, poolVars, browserVars, handlerVars, userVars, chatVars>>
    \/ ToolResume /\ UNCHANGED <<agentVars, poolVars, browserVars, handlerVars, userVars, chatVars>>
    \/ \E t \in Tasks : AddSearchMyItemsDone(t) /\ UNCHANGED <<agentVars, poolVars, browserVars, handlerVars, userVars, chatVars, toolVars>>
    \/ \E t \in Tasks : AddMyItemDone(t) /\ UNCHANGED <<agentVars, poolVars, browserVars, handlerVars, userVars, chatVars, toolVars>>
    \/ \E t \in Tasks : AddSearchProductsDone(t) /\ UNCHANGED <<agentVars, poolVars, browserVars, handlerVars, userVars, chatVars, toolVars>>
    \/ \E t \in Tasks : AddSearchResultDone(t) /\ UNCHANGED <<agentVars, poolVars, browserVars, handlerVars, userVars, chatVars, toolVars>>
    \/ \E t \in Tasks : SearchProductsDone(t) /\ UNCHANGED <<agentVars, poolVars, browserVars, handlerVars, userVars, chatVars, toolVars>>
    \/ \E t \in Tasks : SearchAddResultDone(t) /\ UNCHANGED <<agentVars, poolVars, browserVars, handlerVars, userVars, chatVars, toolVars>>
    \/ \E t \in Tasks : PickAddDone(t) /\ UNCHANGED <<agentVars, poolVars, browserVars, handlerVars, userVars, chatVars, toolVars>>
    \/ \E t \in Tasks : RemoveDone(t) /\ UNCHANGED <<agentVars, poolVars, browserVars, handlerVars, userVars, chatVars, toolVars>>
    \/ \E t \in Tasks : ListDone(t) /\ UNCHANGED <<agentVars, poolVars, browserVars, handlerVars, userVars, chatVars, toolVars>>
    \/ \E t \in Tasks : ClearDone(t) /\ UNCHANGED <<agentVars, poolVars, browserVars, handlerVars, userVars, chatVars, toolVars>>

SpecTools == InitTools /\ [][NextTools]_vars

\* C31: a call that has returned ran the operation of its name, once, or
\* once per item for add_to_grocery_list, and ran nothing else; a call of any
\* other name ran no operation, left the pending selections and the mirror
\* as they were, and returned 'Unknown function: <name>'.
C31_NameFixesOperation ==
    fn.pc = "returned" =>
        IF OperationOf(fn.name) = "none"
        THEN /\ fn.ran = <<>>
             /\ pendingSelections = fn.pending
             /\ groceryItems = fn.mirror
             /\ fn.out = ToolValue("unknown_function", fn.name, "", <<>>)
        ELSE fn.ran = [i \in 1..(IF fn.name = "add_to_grocery_list"
                                 THEN Len(fn.items) ELSE 1)
                            |-> OperationOf(fn.name)]

\* C32: add_to_grocery_list that has returned ran add for every item, in
\* the order of the list, and returned one line per item in that order,
\* each with the message of that item's add.
C32_EveryItemReported ==
    (fn.pc = "returned" /\ fn.name = "add_to_grocery_list") =>
        /\ fn.out.kind = "lines"
        /\ Len(fn.out.lines) = Len(fn.items)
        /\ \A i \in 1..Len(fn.items) :
            /\ task[i].kind = "add"
            /\ task[i].pc = "done"
            /\ fn.out.lines[i] =
                    [item |-> fn.items[i], message |-> task[i].result.msg]

============================================================================
